---- MODULE Spec2Model ----
(***************************************************************************)
(* Model of the attendance middleware: the cloud dispatcher (syncToCloud,   *)
(* src/updater.js), the paginated event fetch (getAttendanceEvents,         *)
(* src/unnamed/part_001), terminal discovery (ensureDeviceReachable,        *)
(* src/deviceDiscovery.js) and the probe of one address (probeDevice,       *)
(* src/deviceDiscovery.js).  Each component has its own specification; the  *)
(* variables of the other components stay at their initial value.           *)
(***************************************************************************)
EXTENDS Integers, Sequences, FiniteSets, TLC

VARIABLES
  \* ---- syncToCloud ----
  syncPc,          \* "idle" | "posting" | "sleeping" | "done"
  attendance,      \* number of processed records handed to syncToCloud
  retryAttempts,   \* config.cloud.retryAttempts
  attempt,         \* loop counter of the retry loop
  lastError,       \* the error caught last, NoError while none
  posts,           \* POSTs issued so far in this call
  postsInFlight,   \* POSTs issued and not yet settled
  sleeps,          \* retry delays waited in full
  outcomes,        \* the settled attempts, in order
  syncResult,      \* the value returned, NoResult while running
  \* ---- HikvisionClient.getAttendanceEvents ----
  gaePc,           \* "idle" | "first" | "page" | "returned" | "threw" | "diverged"
  allPages,        \* opts.allPages
  total,           \* first?.AcsEvent?.totalMatches ?? 0
  events,          \* the raw entries collected so far
  requests,        \* searchResultPosition of every page request issued, in order
  pages,           \* the InfoList of every page response received, in order
  reqInFlight,     \* page requests issued and not yet settled
  returned,        \* the list the call returned
  \* ---- ensureDeviceReachable ----
  discPc,          \* "idle" | "verify" | "scan" | "done" | "failed"
  deviceName,      \* cfg.deviceName, the target name (<<>> when unset)
  detected,        \* what detectAllSubnets returns (<<>>: it throws)
  detectCalled,    \* detectAllSubnets has been called
  subnetPos,       \* position in uniqueSubnets of the subnet being scanned
  index,           \* pMap: the shared cursor
  workerItem,      \* pMap: the item each worker awaits (0: none)
  slotWrites,      \* pMap: writes to results[i], per item
  verifyProbes,    \* probes of the configured address issued by Verify
  currentInfo,     \* what the probe of the configured address came back with
  scanProbes,      \* probes issued by the scan, per address
  found,           \* the accumulated {ip, info}, in completion order
  envWrites,       \* updateEnvFile("TERMINAL_HOST", ip) calls, in order
  envFileHost,     \* TERMINAL_HOST as stored in the .env file
  processEnvHost,  \* process.env.TERMINAL_HOST
  discResult,      \* the value returned, NoDiscovery while running
  discError,       \* the error thrown, NoFailure while none
  \* ---- probeDevice ----
  probePc,         \* "idle" | "probe" | "authed" | "done" | "raised"
  parseXml,        \* xml2js could be imported when the module was loaded
  probeAttempt,    \* position in attempts of the attempt being made
  probeSent,       \* the requests sent, in order
  probeGot,        \* what the requests settled with, in order
  probeResult,     \* the value returned, NoProbeResult while running
  \* ---- processAttendance ----
  aggPc,           \* "idle" | "done"
  records,         \* the raw records handed to processAttendance
  processed,       \* the list returned
  \* ---- HikvisionClient.request / getDeviceInfo ----
  reqPc,           \* "idle" | "probe" | "authed" | "returned" | "threw"
  reqVia,          \* "request": called directly; "getDeviceInfo": through it
  reqSent,         \* the HTTP requests sent, in order
  reqGot,          \* what they settled with, in order
  reqResult,       \* what the call ended with, NoCallResult while running
  digPc,           \* "idle" | "built"
  digImpl,         \* "client": part_001's buildDigestAuth; "discovery": deviceDiscovery.js's
  digArgs,         \* method, uri, username, password, wwwAuth of the call
  digHeader,        \* the Authorization header built, NoHeader before
  mainPc,          \* "idle" | "discovery" | "fetch" | "dispatch" | "returned" | "exited"
  terminalHost,    \* the host the terminal client of main is bound to
  activeHost,      \* main: activeHost
  discovery,       \* what ensureDeviceReachable resolved with, Unresolved before
  rawRecords,      \* what getAttendanceEvents resolved with
  steps,           \* the calls main has made to its collaborators, in order
  failedStep,      \* the step whose failure ended the run, "none" otherwise
  exitCode,        \* the code given to process.exit, NoExit when it was not called
  matchArgs,       \* info and targetName of a call of isTargetDevice
  matchResult      \* what the call returned, NoMatchResult before

syncVars == <<syncPc, attendance, retryAttempts, attempt, lastError, posts,
              postsInFlight, sleeps, outcomes, syncResult>>

gaeVars == <<gaePc, allPages, total, events, requests, pages, reqInFlight, returned>>

discVars == <<discPc, deviceName, detected, detectCalled, subnetPos, index,
              workerItem, slotWrites, verifyProbes, currentInfo, scanProbes, found,
              envWrites, envFileHost, processEnvHost, discResult, discError>>

probeVars == <<probePc, parseXml, probeAttempt, probeSent, probeGot, probeResult>>

aggVars == <<aggPc, records, processed>>

clientVars == <<reqPc, reqVia, reqSent, reqGot, reqResult>>

digestVars == <<digPc, digImpl, digArgs, digHeader>>

mainVars == <<mainPc, terminalHost, activeHost, discovery, rawRecords, steps, failedStep, exitCode>>

matchVars == <<matchArgs, matchResult>>

vars == <<syncVars, gaeVars, discVars, probeVars, aggVars, clientVars, digestVars, mainVars, matchVars>>

----------------------------------------------------------------------------
(* Bounds of the model *)
MaxEvents == 3
MaxRecords == 2
MaxRetryAttempts == 3
MaxTotal == 3       \* largest totalMatches the device declares
MaxBatch == 2       \* most entries the device puts in one page
HostsPerSubnet == 3 \* hosts of a subnet (254 in subnetHosts), scaled down
ScanWorkers == 2    \* the concurrency cap (SCAN_CONCURRENCY, 30), scaled down

----------------------------------------------------------------------------
(* syncToCloud                                                              *)

\* HTTP statuses the remote service may answer with.
Statuses == {200, 204, 304, 400, 499, 500, 503}
\* Response bodies (res.data / err.response.data); "null" is an absent body.
Bodies == {"null", "body"}

NoError == [set |-> FALSE, response |-> FALSE, status |-> 0, data |-> "null"]
NoResult == [returned |-> FALSE, success |-> FALSE, sent |-> 0, response |-> "null"]

\* What one POST can settle with: a response, or a network error.
Responses == [response : {TRUE}, status : Statuses, data : Bodies]
NetworkError == [response |-> FALSE, status |-> 0, data |-> "null"]

\* axios resolves the promise for a 2xx status and rejects otherwise.
ValidateStatus(status) == status >= 200 /\ status < 300

\* Variant: the lower end of the client-error range is excluded.
IsClientErrorAbove400(err) == err.response /\ err.status > 400 /\ err.status < 500

\* err.response?.status >= 400 && err.response?.status < 500
IsClientError(err) == err.response /\ err.status >= 400 /\ err.status < 500

\* Variants: one attempt too many, one attempt too few.
LoopCondOneMore(a) == a <= retryAttempts + 1
LoopCondOneLess(a) == a < retryAttempts

\* The loop condition of the retry loop.
LoopCond(a) == a <= retryAttempts

\* Variant: the loop goes on without waiting.
ShouldSleepNever(a) == FALSE

\* if (attempt < config.cloud.retryAttempts) await sleep(...)
ShouldSleep(a) == a < retryAttempts

\* lastError?.response?.data ?? null
FailureResponse(err) == IF err.set /\ err.response THEN err.data ELSE "null"

SuccessResult(data) ==
  [returned |-> TRUE, success |-> TRUE, sent |-> attendance, response |-> data]

EmptyResult ==
  [returned |-> TRUE, success |-> TRUE, sent |-> 0, response |-> "null"]

FailureResult(err) ==
  [returned |-> TRUE, success |-> FALSE, sent |-> 0, response |-> FailureResponse(err)]

\* One pass of the loop head with counter a and last error err, while
\* settled POSTs are in flight no more: issue the POST of attempt a, or leave
\* the loop and return the failure result.
EnterAttempt(a, err, inFlight) ==
  /\ attempt' = a
  /\ IF LoopCond(a)
       THEN /\ syncPc' = "posting"
            /\ posts' = posts + 1
            /\ postsInFlight' = inFlight + 1
            /\ syncResult' = syncResult
       ELSE /\ syncPc' = "done"
            /\ syncResult' = FailureResult(err)
            /\ posts' = posts
            /\ postsInFlight' = inFlight

\* Variant: the empty list is posted like any other.
SyncCallNoShortCircuit ==
  /\ syncPc = "idle"
  /\ EnterAttempt(1, lastError, postsInFlight)
  /\ UNCHANGED <<attendance, retryAttempts, lastError, sleeps, outcomes>>

\* The call: the empty list short-circuits, otherwise attempt 1 starts.
SyncCall ==
  /\ syncPc = "idle"
  /\ IF attendance = 0
       THEN /\ syncPc' = "done"
            /\ syncResult' = EmptyResult
            /\ UNCHANGED <<attempt, posts, postsInFlight>>
       ELSE EnterAttempt(1, lastError, postsInFlight)
  /\ UNCHANGED <<attendance, retryAttempts, lastError, sleeps, outcomes>>

\* Variant: the success result is kept but the loop is not left.
PostResolvesNoReturn ==
  /\ syncPc = "posting"
  /\ \E res \in Responses :
       /\ ValidateStatus(res.status)
       /\ outcomes' = Append(outcomes, res)
  /\ EnterAttempt(attempt + 1, lastError, postsInFlight - 1)
  /\ UNCHANGED <<attendance, retryAttempts, lastError, sleeps>>

\* The POST in flight resolves (2xx).
PostResolves ==
  /\ syncPc = "posting"
  /\ \E res \in Responses :
       /\ ValidateStatus(res.status)
       /\ outcomes' = Append(outcomes, res)
       /\ syncResult' = SuccessResult(res.data)
  /\ syncPc' = "done"
  /\ postsInFlight' = postsInFlight - 1
  /\ UNCHANGED <<attendance, retryAttempts, attempt, lastError, posts, sleeps>>

\* What the catch block does with err caught in attempt a.
Caught(err) ==
  /\ lastError' = [set |-> TRUE, response |-> err.response,
                   status |-> err.status, data |-> err.data]
  /\ outcomes' = Append(outcomes, err)
  /\ IF IsClientError(err)
       THEN /\ syncPc' = "done"
            /\ syncResult' = FailureResult(lastError')
            /\ UNCHANGED <<attempt, posts>>
            /\ postsInFlight' = postsInFlight - 1
       ELSE IF ShouldSleep(attempt)
         THEN /\ syncPc' = "sleeping"
              /\ postsInFlight' = postsInFlight - 1
              /\ UNCHANGED <<attempt, posts, syncResult>>
         ELSE EnterAttempt(attempt + 1, lastError', postsInFlight - 1)

\* The POST in flight rejects: a non-2xx response or a network error.
PostRejects ==
  /\ syncPc = "posting"
  /\ \E err \in Responses \cup {NetworkError} :
       /\ ~(err.response /\ ValidateStatus(err.status))
       /\ Caught(err)
  /\ UNCHANGED <<attendance, retryAttempts, sleeps>>

\* The retry delay has elapsed: the loop goes on with the next attempt.
SleepDone ==
  /\ syncPc = "sleeping"
  /\ sleeps' = sleeps + 1
  /\ EnterAttempt(attempt + 1, lastError, postsInFlight)
  /\ UNCHANGED <<attendance, retryAttempts, lastError, outcomes>>

\* The state of a dispatcher that has not been called.
SyncStart ==
  /\ syncPc = "idle"
  /\ attempt = 0
  /\ lastError = NoError
  /\ posts = 0
  /\ postsInFlight = 0
  /\ sleeps = 0
  /\ outcomes = <<>>
  /\ syncResult = NoResult

\* While another component is checked the dispatcher is not called.
SyncIdle == SyncStart /\ attendance = 0 /\ retryAttempts = 0

----------------------------------------------------------------------------
(* HikvisionClient.getAttendanceEvents                                      *)

\* Raw AcsEvent entries as the terminal sends them.
RawEntries ==
  { [employeeNoString |-> "A", time |-> "08:10:22"],
    [employeeNoString |-> "B", time |-> "14:35:07"] }

\* #normalise: raw ISAPI entry -> AttendanceRecord (the fields modelled).
Normalise(raw) ==
  [employeeNo |-> raw.employeeNoString, eventTime |-> raw.time, raw |-> raw]

\* events.map((e) => this.#normalise(e))
RECURSIVE MapNormalise(_)
MapNormalise(es) ==
  IF es = <<>> THEN <<>>
  ELSE <<Normalise(Head(es))>> \o MapNormalise(Tail(es))

\* The InfoList values a page can carry: up to MaxBatch entries.
Batches == UNION { [1..n -> RawEntries] : n \in 0..MaxBatch }

\* A page response body: totalMatches and InfoList may each be missing.
PageBodies ==
  [hasTotal : BOOLEAN, totalMatches : 0..MaxTotal, hasList : BOOLEAN, InfoList : Batches]

\* first?.AcsEvent?.totalMatches ?? 0
TotalOf(body) == IF body.hasTotal THEN body.totalMatches ELSE 0
\* page?.AcsEvent?.InfoList ?? []
InfoListOf(body) == IF body.hasList THEN body.InfoList ELSE <<>>

\* The code bounds the page requests of a call by total + 1; the model stops
\* a call that would go beyond MaxRequests in the state "diverged".
MaxRequests == MaxTotal + 2

\* await this.request("POST", ..., buildPayload(offset)), the awaited page
\* before it having settled.
IssuePage(offset) ==
  IF Len(requests) < MaxRequests
    THEN /\ requests' = Append(requests, offset)
         /\ reqInFlight' = (reqInFlight - 1) + 1
         /\ gaePc' = "page"
         /\ UNCHANGED returned
    ELSE /\ gaePc' = "diverged"
         /\ reqInFlight' = reqInFlight - 1
         /\ UNCHANGED <<requests, returned>>

\* return events.map((e) => this.#normalise(e)), the awaited page having
\* settled.
ReturnEvents(evs) ==
  /\ gaePc' = "returned"
  /\ returned' = MapNormalise(evs)
  /\ reqInFlight' = reqInFlight - 1
  /\ UNCHANGED requests

\* while (events.length < total)
WhileCond(evs) == Len(evs) < total

\* The call: the first page is requested at offset 0.
GaeCall ==
  /\ gaePc = "idle"
  /\ gaePc' = "first"
  /\ requests' = Append(requests, 0)
  /\ reqInFlight' = reqInFlight + 1
  /\ UNCHANGED <<allPages, total, events, pages, returned>>

\* The first page arrives.
FirstResponse ==
  /\ gaePc = "first"
  /\ \E body \in PageBodies :
       /\ total' = TotalOf(body)
       /\ events' = InfoListOf(body)
       /\ pages' = Append(pages, InfoListOf(body))
       /\ IF allPages /\ TotalOf(body) > Len(InfoListOf(body))
            THEN IssuePage(Len(InfoListOf(body)))
            ELSE ReturnEvents(InfoListOf(body))
  /\ UNCHANGED allPages

\* Variant: an empty page does not end the loop.
PageResponseNoBreak ==
  /\ gaePc = "page"
  /\ \E body \in PageBodies :
       LET batch == InfoListOf(body)
           evs == events \o batch
       IN /\ pages' = Append(pages, batch)
          /\ events' = evs
          /\ IF WhileCond(evs) THEN IssuePage(Len(evs)) ELSE ReturnEvents(evs)
  /\ UNCHANGED <<allPages, total>>

\* A later page arrives.
PageResponse ==
  /\ gaePc = "page"
  /\ \E body \in PageBodies :
       LET batch == InfoListOf(body)
           evs == events \o batch
       IN /\ pages' = Append(pages, batch)
          /\ IF Len(batch) = 0
               THEN /\ events' = events
                    /\ ReturnEvents(events)
               ELSE /\ events' = evs
                    /\ IF WhileCond(evs) THEN IssuePage(Len(evs)) ELSE ReturnEvents(evs)
  /\ UNCHANGED <<allPages, total>>

\* this.request throws (terminal unreachable, 401 again, HTTP >= 400): the
\* call ends by raising.
RequestThrows ==
  /\ gaePc \in {"first", "page"}
  /\ gaePc' = "threw"
  /\ reqInFlight' = 0
  /\ UNCHANGED <<allPages, total, events, requests, pages, returned>>

\* The state of a client on which getAttendanceEvents has not been called.
GaeStart ==
  /\ gaePc = "idle"
  /\ total = 0
  /\ events = <<>>
  /\ requests = <<>>
  /\ pages = <<>>
  /\ reqInFlight = 0
  /\ returned = <<>>

\* While another component is checked no events are fetched.
GaeIdle == GaeStart /\ allPages = TRUE

----------------------------------------------------------------------------
(* Device discovery: isTargetDevice                                         *)

\* Strings are sequences of characters; an optional field is null or a string.
Null == [null |-> TRUE, str |-> <<>>]
Str(s) == [null |-> FALSE, str |-> s]

\* Boolean(v) of an optional string: null and "" are falsy.
Truthy(v) == ~v.null /\ v.str # <<>>

\* String.prototype.toLowerCase, on the characters used.
LowerChar(c) ==
  CASE c = "K" -> "k"
    [] c = "D" -> "d"
    [] c = "S" -> "s"
    [] c = "G" -> "g"
    [] c = "V" -> "v"
    [] OTHER -> c
ToLowerCase(s) == [i \in 1..Len(s) |-> LowerChar(s[i])]

RECURSIVE TrimStart(_)
TrimStart(s) == IF s # <<>> /\ Head(s) = " " THEN TrimStart(Tail(s)) ELSE s
RECURSIVE TrimEnd(_)
TrimEnd(s) ==
  IF s # <<>> /\ s[Len(s)] = " " THEN TrimEnd(SubSeq(s, 1, Len(s) - 1)) ELSE s
\* String.prototype.trim
Trim(s) == TrimEnd(TrimStart(s))

\* String.prototype.includes
Includes(s, t) ==
  \E i \in 0..(Len(s) - Len(t)) : SubSeq(s, i + 1, i + Len(t)) = t

\* The fields isTargetDevice compares, lower-cased and trimmed.
Candidates(info) ==
  { Trim(ToLowerCase(v.str)) :
      v \in { f \in {info.deviceName, info.model, info.serialNumber, info.macAddress} :
                Truthy(f) } }

\* Variant: any device that answered is taken for the target.
IsTargetDeviceAny(info, targetName) == TRUE

\* Variant: only the device name is compared, and for equality.
IsTargetDeviceNameOnly(info, targetName) ==
  /\ targetName # <<>>
  /\ Truthy(info.deviceName)
  /\ Trim(ToLowerCase(info.deviceName.str)) = Trim(ToLowerCase(targetName))

isTargetDevice(info, targetName) ==
  IF targetName = <<>> THEN FALSE
  ELSE LET target == Trim(ToLowerCase(targetName))
       IN \/ \E c \in Candidates(info) :
               c = target \/ Includes(c, target) \/ Includes(target, c)
          \/ (info.raw # <<>> /\ Includes(ToLowerCase(info.raw), target))

----------------------------------------------------------------------------
(* Device discovery: ensureDeviceReachable                                  *)

\* The identities a probe can come back with.
InfoTarget ==
  [deviceName |-> Str(<<"G", "a", "t", "e">>), model |-> Str(<<"D", "S", "-", "K", "1">>),
   serialNumber |-> Null, firmwareVersion |-> Null, macAddress |-> Null,
   raw |-> <<"D", "S", "-", "K", "1">>]
InfoOther ==
  [deviceName |-> Null, model |-> Str(<<"D", "S">>),
   serialNumber |-> Str(<<"7">>), firmwareVersion |-> Null, macAddress |-> Null,
   raw |-> <<"D", "S", "7">>]
InfoRawOnly ==
  [deviceName |-> Null, model |-> Null,
   serialNumber |-> Null, firmwareVersion |-> Str(<<"V", "4">>), macAddress |-> Null,
   raw |-> <<"<", "V", "4", " ", "K", "1">>]
Infos == {InfoTarget, InfoOther, InfoRawOnly}

\* The identities the devices of the scanned networks answer with.
ProbedInfos == {InfoTarget, InfoOther}

\* probeDevice returns null on any failure.
NoInfo == [deviceName |-> Null, model |-> Null, serialNumber |-> Null,
           firmwareVersion |-> Null, macAddress |-> Null, raw |-> <<>>]
ProbeOutcomes == ProbedInfos \cup {NoInfo}

\* The target names the configuration may hold; <<>> is an unset name.  The
\* second is part of InfoTarget's model only; the third is InfoTarget's model,
\* and InfoOther's model is part of it.
TargetNames == { <<>>, <<"k", "1", " ">>, <<"D", "S", "-", "K", "1">> }

\* What detectAllSubnets may return: the /24 prefixes of the interfaces, in
\* scan order, with repeats; <<>> stands for its throwing.
DetectedLists ==
  { <<>>, <<"10.0.1">>, <<"10.0.1", "10.0.1">>, <<"10.0.1", "10.0.2", "10.0.1">> }
SubnetPrefixes == {"10.0.1", "10.0.2"}

\* subnetHosts(base): the host addresses of a /24, in order.
subnetHosts(base) == [i \in 1..HostsPerSubnet |-> <<base, i>>]

Addresses == SubnetPrefixes \X (1..HostsPerSubnet)

\* cfg.host: the address the configuration holds.
ConfiguredHost == <<"10.0.1", 1>>

RECURSIVE Dedupe(_, _)
\* [...new Map(subnets.map((s) => [s.subnet, s])).values()]: one entry per
\* prefix, in the order of first occurrence.
Dedupe(list, seen) ==
  IF list = <<>> THEN <<>>
  ELSE IF Head(list) \in seen THEN Dedupe(Tail(list), seen)
  ELSE <<Head(list)>> \o Dedupe(Tail(list), seen \cup {Head(list)})

uniqueSubnets == Dedupe(detected, {})

\* The workers a pool can have: never more than there are items.
Workers == 1..HostsPerSubnet
Min(a, b) == IF a < b THEN a ELSE b

\* Variant: one worker per item, whatever the cap.
PoolSizeUncapped(n) == n

\* Math.min(concurrency, items.length), with concurrency = SCAN_CONCURRENCY
PoolSize(n) == Min(ScanWorkers, n)

NoDiscovery == [returned |-> FALSE, ip |-> ConfiguredHost, changed |-> FALSE, info |-> NoInfo]
NoFailure == [kind |-> "none", subnets |-> <<>>, candidates |-> <<>>]

InFlight == Cardinality({w \in Workers : workerItem[w] # 0})

\* found.some(({ info }) => isTargetDevice(info, deviceName))
SomeMatch(fnd) == \E i \in 1..Len(fnd) : isTargetDevice(fnd[i].info, deviceName)

\* Variant: the first device found, matching or not.
FirstFound(fnd) == 1

\* Variant: of the matches, the one with the lowest host address is taken.
FirstMatchLowestAddress(fnd) ==
  CHOOSE i \in 1..Len(fnd) :
    /\ isTargetDevice(fnd[i].info, deviceName)
    /\ \A j \in 1..Len(fnd) :
         isTargetDevice(fnd[j].info, deviceName) => fnd[i].ip[2] <= fnd[j].ip[2]

\* found.find(({ info }) => isTargetDevice(info, deviceName)): its position.
FirstMatch(fnd) ==
  CHOOSE i \in 1..Len(fnd) :
    /\ isTargetDevice(fnd[i].info, deviceName)
    /\ \A j \in 1..(i - 1) : ~isTargetDevice(fnd[j].info, deviceName)

\* The call: the configured address is probed.
DiscCall ==
  /\ discPc = "idle"
  /\ discPc' = "verify"
  /\ verifyProbes' = verifyProbes + 1
  /\ UNCHANGED <<deviceName, detected, detectCalled, subnetPos, index, workerItem,
                 slotWrites, currentInfo, scanProbes, found, envWrites, envFileHost,
                 processEnvHost, discResult, discError>>

\* pMap(allHosts, SCAN_CONCURRENCY, fn) on the subnet at position pos: every
\* worker claims an item and starts its probe before anything is awaited.
StartScan(pos) ==
  LET n == PoolSize(HostsPerSubnet)
      hosts == subnetHosts(uniqueSubnets[pos])
  IN /\ subnetPos' = pos
     /\ index' = n
     /\ workerItem' = [w \in Workers |-> IF w <= n THEN w ELSE 0]
     /\ slotWrites' = [i \in 1..HostsPerSubnet |-> 0]
     /\ scanProbes' = [a \in Addresses |->
                         IF \E i \in 1..n : hosts[i] = a
                           THEN scanProbes[a] + 1 ELSE scanProbes[a]]
     /\ discPc' = "scan"

\* Variant: the scan starts whatever the probe of the configured address said.
VerifyAnswersAlwaysScan(info) ==
  /\ detectCalled' = TRUE
  /\ IF detected = <<>>
       THEN /\ discPc' = "failed"
            /\ discError' = [NoFailure EXCEPT !.kind = "detect"]
            /\ UNCHANGED <<subnetPos, index, workerItem, slotWrites, scanProbes>>
       ELSE /\ StartScan(1)
            /\ UNCHANGED discError
  /\ UNCHANGED discResult

\* The rest of the call once the probe of the configured address came back.
VerifyAnswers(info) ==
  IF info # NoInfo
    THEN /\ discPc' = "done"
         /\ discResult' = [returned |-> TRUE, ip |-> ConfiguredHost,
                           changed |-> FALSE, info |-> info]
         /\ UNCHANGED <<detectCalled, subnetPos, index, workerItem, slotWrites,
                        scanProbes, discError>>
    ELSE /\ detectCalled' = TRUE
         /\ IF detected = <<>>
              THEN /\ discPc' = "failed"
                   /\ discError' = [NoFailure EXCEPT !.kind = "detect"]
                   /\ UNCHANGED <<subnetPos, index, workerItem, slotWrites, scanProbes>>
              ELSE /\ StartScan(1)
                   /\ UNCHANGED discError
         /\ UNCHANGED discResult

\* The probe of the configured address comes back.
VerifyDone ==
  /\ discPc = "verify"
  /\ \E info \in ProbeOutcomes :
       /\ currentInfo' = info
       /\ VerifyAnswers(info)
  /\ UNCHANGED <<deviceName, detected, verifyProbes, found, envWrites,
                 envFileHost, processEnvHost>>

\* Variant: the cursor is read before the probe is awaited and incremented
\* after it, so the worker takes the item the cursor stood at again.
ProbeDoneStaleCursor ==
  /\ discPc = "scan"
  /\ \E w \in Workers, info \in ProbeOutcomes :
       LET i == workerItem[w]
           hosts == subnetHosts(uniqueSubnets[subnetPos])
       IN /\ i # 0
          /\ found' = IF info # NoInfo
                        THEN Append(found, [ip |-> hosts[i], info |-> info])
                        ELSE found
          /\ slotWrites' = [slotWrites EXCEPT ![i] = @ + 1]
          /\ IF index < HostsPerSubnet
               THEN /\ index' = index + 1
                    /\ workerItem' = [workerItem EXCEPT ![w] = index]
                    /\ scanProbes' = [scanProbes EXCEPT ![hosts[index]] = @ + 1]
               ELSE /\ workerItem' = [workerItem EXCEPT ![w] = 0]
                    /\ UNCHANGED <<index, scanProbes>>
  /\ UNCHANGED <<discPc, deviceName, detected, detectCalled, subnetPos, verifyProbes,
                 currentInfo, envWrites, envFileHost, processEnvHost, discResult, discError>>

\* The probe a worker awaits comes back: the identity, if any, is accumulated,
\* the result slot is written, and the worker claims the next item, if any.
ProbeDone ==
  /\ discPc = "scan"
  /\ \E w \in Workers, info \in ProbeOutcomes :
       LET i == workerItem[w]
           hosts == subnetHosts(uniqueSubnets[subnetPos])
       IN /\ i # 0
          /\ found' = IF info # NoInfo
                        THEN Append(found, [ip |-> hosts[i], info |-> info])
                        ELSE found
          /\ slotWrites' = [slotWrites EXCEPT ![i] = @ + 1]
          /\ IF index < HostsPerSubnet
               THEN /\ index' = index + 1
                    /\ workerItem' = [workerItem EXCEPT ![w] = index + 1]
                    /\ scanProbes' = [scanProbes EXCEPT ![hosts[index + 1]] = @ + 1]
               ELSE /\ workerItem' = [workerItem EXCEPT ![w] = 0]
                    /\ UNCHANGED <<index, scanProbes>>
  /\ UNCHANGED <<discPc, deviceName, detected, detectCalled, subnetPos, verifyProbes,
                 currentInfo, envWrites, envFileHost, processEnvHost, discResult, discError>>

\* Variant: with no match the first device found is taken.
ResolveFirstFound(fileOk) ==
  IF found = <<>>
    THEN /\ discPc' = "failed"
         /\ discError' = [kind |-> "noDevices", subnets |-> uniqueSubnets,
                          candidates |-> <<>>]
         /\ UNCHANGED <<envWrites, envFileHost, processEnvHost, discResult>>
  ELSE IF deviceName = <<>>
    THEN /\ discPc' = "failed"
         /\ discError' = [kind |-> "missingName", subnets |-> <<>>, candidates |-> <<>>]
         /\ UNCHANGED <<envWrites, envFileHost, processEnvHost, discResult>>
  ELSE LET match == IF SomeMatch(found) THEN found[FirstMatch(found)] ELSE found[1]
       IN /\ envWrites' = Append(envWrites, match.ip)
          /\ IF fileOk
               THEN /\ envFileHost' = match.ip
                    /\ processEnvHost' = match.ip
               ELSE UNCHANGED <<envFileHost, processEnvHost>>
          /\ discPc' = "done"
          /\ discResult' = [returned |-> TRUE, ip |-> match.ip,
                            changed |-> TRUE, info |-> match.info]
          /\ UNCHANGED discError

\* Variant: the target name is not checked for being set.
ResolveNoNameCheck(fileOk) ==
  IF found = <<>>
    THEN /\ discPc' = "failed"
         /\ discError' = [kind |-> "noDevices", subnets |-> uniqueSubnets,
                          candidates |-> <<>>]
         /\ UNCHANGED <<envWrites, envFileHost, processEnvHost, discResult>>
  ELSE IF ~SomeMatch(found)
    THEN /\ discPc' = "failed"
         /\ discError' = [kind |-> "noMatch", subnets |-> <<>>, candidates |-> found]
         /\ UNCHANGED <<envWrites, envFileHost, processEnvHost, discResult>>
  ELSE LET match == found[FirstMatch(found)]
       IN /\ envWrites' = Append(envWrites, match.ip)
          /\ IF fileOk
               THEN /\ envFileHost' = match.ip
                    /\ processEnvHost' = match.ip
               ELSE UNCHANGED <<envFileHost, processEnvHost>>
          /\ discPc' = "done"
          /\ discResult' = [returned |-> TRUE, ip |-> match.ip,
                            changed |-> TRUE, info |-> match.info]
          /\ UNCHANGED discError

\* Variant: a write that fails ends the call with an error.
ResolvePersistFailureThrows(fileOk) ==
  IF found = <<>>
    THEN /\ discPc' = "failed"
         /\ discError' = [kind |-> "noDevices", subnets |-> uniqueSubnets,
                          candidates |-> <<>>]
         /\ UNCHANGED <<envWrites, envFileHost, processEnvHost, discResult>>
  ELSE IF deviceName = <<>>
    THEN /\ discPc' = "failed"
         /\ discError' = [kind |-> "missingName", subnets |-> <<>>, candidates |-> <<>>]
         /\ UNCHANGED <<envWrites, envFileHost, processEnvHost, discResult>>
  ELSE IF ~SomeMatch(found)
    THEN /\ discPc' = "failed"
         /\ discError' = [kind |-> "noMatch", subnets |-> <<>>, candidates |-> found]
         /\ UNCHANGED <<envWrites, envFileHost, processEnvHost, discResult>>
  ELSE LET match == found[FirstMatch(found)]
       IN /\ envWrites' = Append(envWrites, match.ip)
          /\ IF fileOk
               THEN /\ envFileHost' = match.ip
                    /\ processEnvHost' = match.ip
                    /\ discPc' = "done"
                    /\ discResult' = [returned |-> TRUE, ip |-> match.ip,
                                      changed |-> TRUE, info |-> match.info]
                    /\ UNCHANGED discError
               ELSE /\ discPc' = "failed"
                    /\ discError' = [kind |-> "persist", subnets |-> <<>>,
                                     candidates |-> <<>>]
                    /\ UNCHANGED <<envFileHost, processEnvHost, discResult>>

\* Steps 3 and 4: what the call ends with once scanning is over; fileOk says
\* whether updateEnvFile can rewrite the .env file.
Resolve(fileOk) ==
  IF found = <<>>
    THEN /\ discPc' = "failed"
         /\ discError' = [kind |-> "noDevices", subnets |-> uniqueSubnets,
                          candidates |-> <<>>]
         /\ UNCHANGED <<envWrites, envFileHost, processEnvHost, discResult>>
  ELSE IF deviceName = <<>>
    THEN /\ discPc' = "failed"
         /\ discError' = [kind |-> "missingName", subnets |-> <<>>, candidates |-> <<>>]
         /\ UNCHANGED <<envWrites, envFileHost, processEnvHost, discResult>>
  ELSE IF ~SomeMatch(found)
    THEN /\ discPc' = "failed"
         /\ discError' = [kind |-> "noMatch", subnets |-> <<>>, candidates |-> found]
         /\ UNCHANGED <<envWrites, envFileHost, processEnvHost, discResult>>
  ELSE LET match == found[FirstMatch(found)]
       IN /\ envWrites' = Append(envWrites, match.ip)
          /\ IF fileOk
               THEN /\ envFileHost' = match.ip
                    /\ processEnvHost' = match.ip
               ELSE UNCHANGED <<envFileHost, processEnvHost>>
          /\ discPc' = "done"
          /\ discResult' = [returned |-> TRUE, ip |-> match.ip,
                            changed |-> TRUE, info |-> match.info]
          /\ UNCHANGED discError

\* Variant: every unique subnet is scanned, match or no match.
SubnetDoneNoEarlyExit ==
  /\ discPc = "scan"
  /\ InFlight = 0
  /\ IF subnetPos = Len(uniqueSubnets)
       THEN /\ \E fileOk \in BOOLEAN : Resolve(fileOk)
            /\ UNCHANGED <<subnetPos, index, workerItem, slotWrites, scanProbes>>
       ELSE /\ StartScan(subnetPos + 1)
            /\ UNCHANGED <<envWrites, envFileHost, processEnvHost, discResult, discError>>
  /\ UNCHANGED <<deviceName, detected, detectCalled, verifyProbes, currentInfo, found>>

\* Variant: the call is resolved after the first subnet, whatever it gave.
SubnetDoneFirstOnly ==
  /\ discPc = "scan"
  /\ InFlight = 0
  /\ IF subnetPos >= 1
       THEN /\ \E fileOk \in BOOLEAN : Resolve(fileOk)
            /\ UNCHANGED <<subnetPos, index, workerItem, slotWrites, scanProbes>>
       ELSE /\ StartScan(subnetPos + 1)
            /\ UNCHANGED <<envWrites, envFileHost, processEnvHost, discResult, discError>>
  /\ UNCHANGED <<deviceName, detected, detectCalled, verifyProbes, currentInfo, found>>

\* pMap has resolved (every worker has run out of items): stop at a match or
\* at the last subnet, else scan the next subnet.
SubnetDone ==
  /\ discPc = "scan"
  /\ InFlight = 0
  /\ IF (deviceName # <<>> /\ SomeMatch(found)) \/ subnetPos = Len(uniqueSubnets)
       THEN /\ \E fileOk \in BOOLEAN : Resolve(fileOk)
            /\ UNCHANGED <<subnetPos, index, workerItem, slotWrites, scanProbes>>
       ELSE /\ StartScan(subnetPos + 1)
            /\ UNCHANGED <<envWrites, envFileHost, processEnvHost, discResult, discError>>
  /\ UNCHANGED <<deviceName, detected, detectCalled, verifyProbes, currentInfo, found>>

\* The state before ensureDeviceReachable is called.
DiscStart ==
  /\ discPc = "idle"
  /\ detectCalled = FALSE
  /\ subnetPos = 0
  /\ index = 0
  /\ workerItem = [w \in Workers |-> 0]
  /\ slotWrites = [i \in 1..HostsPerSubnet |-> 0]
  /\ verifyProbes = 0
  /\ currentInfo = NoInfo
  /\ scanProbes = [a \in Addresses |-> 0]
  /\ found = <<>>
  /\ envWrites = <<>>
  /\ envFileHost = ConfiguredHost
  /\ processEnvHost = ConfiguredHost
  /\ discResult = NoDiscovery
  /\ discError = NoFailure

\* While another component is checked discovery is not run.
DiscIdle == DiscStart /\ deviceName = <<>> /\ detected = <<>>

----------------------------------------------------------------------------
(* The probe of one address: normaliseDeviceInfo and probeDevice            *)

\* The five identity fields, all absent.
NoFields ==
  [deviceName |-> Null, model |-> Null, serialNumber |-> Null,
   firmwareVersion |-> Null, macAddress |-> Null]

\* The identity fields of an identity.
FieldsOf(info) ==
  [deviceName |-> info.deviceName, model |-> info.model,
   serialNumber |-> info.serialNumber,
   firmwareVersion |-> info.firmwareVersion, macAddress |-> info.macAddress]

\* The object normaliseDeviceInfo builds from five fields and _raw.
Identity(fields, raw) ==
  [deviceName |-> fields.deviceName, model |-> fields.model,
   serialNumber |-> fields.serialNumber,
   firmwareVersion |-> fields.firmwareVersion, macAddress |-> fields.macAddress,
   raw |-> raw]

\* Response bodies, as text.  syntax and wellFormed say which parser accepts
\* the text; root is what the parsed value is (an object with a DeviceInfo
\* member, another object, or null); fields are the fields of the DeviceInfo
\* object (or of the object itself), inner is that object as text; tagged are
\* the fields a search for <tag>value</tag> finds in the text.
BodyJsonWrapped ==
  [syntax |-> "json", wellFormed |-> TRUE, root |-> "DeviceInfo",
   fields |-> FieldsOf(InfoTarget), tagged |-> NoFields,
   inner |-> InfoTarget.raw, text |-> <<"{", "D", "S", "-", "K", "1", "}">>]
BodyJsonFlat ==
  [syntax |-> "json", wellFormed |-> TRUE, root |-> "object",
   fields |-> FieldsOf(InfoOther), tagged |-> NoFields,
   inner |-> InfoOther.raw, text |-> <<"{", "D", "S", "7", "}">>]
BodyJsonEmpty ==
  [syntax |-> "json", wellFormed |-> TRUE, root |-> "object",
   fields |-> NoFields, tagged |-> NoFields,
   inner |-> <<"{", "}">>, text |-> <<"{", "}">>]
BodyJsonNull ==
  [syntax |-> "json", wellFormed |-> TRUE, root |-> "null",
   fields |-> NoFields, tagged |-> NoFields,
   inner |-> <<>>, text |-> <<"n", "u", "l", "l">>]
BodyJsonCut ==
  [syntax |-> "json", wellFormed |-> FALSE, root |-> "object",
   fields |-> FieldsOf(InfoOther), tagged |-> NoFields,
   inner |-> InfoOther.raw, text |-> <<"{", "D", "S">>]
BodyXml ==
  [syntax |-> "xml", wellFormed |-> TRUE, root |-> "DeviceInfo",
   fields |-> FieldsOf(InfoTarget), tagged |-> FieldsOf(InfoTarget),
   inner |-> InfoTarget.raw, text |-> <<" ", "<", "D", "S", "-", "K", "1", ">">>]
BodyXmlPage ==
  [syntax |-> "xml", wellFormed |-> TRUE, root |-> "object",
   fields |-> NoFields, tagged |-> NoFields,
   inner |-> <<"h", "t", "m", "l">>, text |-> <<"<", "h", "t", "m", "l", ">">>]
BodyXmlCut ==
  [syntax |-> "xml", wellFormed |-> FALSE, root |-> "DeviceInfo",
   fields |-> FieldsOf(InfoRawOnly), tagged |-> FieldsOf(InfoRawOnly),
   inner |-> InfoRawOnly.raw, text |-> InfoRawOnly.raw]
BodyText ==
  [syntax |-> "text", wellFormed |-> FALSE, root |-> "object",
   fields |-> NoFields, tagged |-> NoFields,
   inner |-> <<>>, text |-> <<"D", "e", "n", "i", "e", "d">>]
\* <deviceName> </deviceName>: the one field there is holds blanks only, which
\* both xml2js and xmlField (after trim) give as the empty string.
BodyXmlBlank ==
  [syntax |-> "xml", wellFormed |-> TRUE, root |-> "DeviceInfo",
   fields |-> [NoFields EXCEPT !.deviceName = Str(<<>>)],
   tagged |-> [NoFields EXCEPT !.deviceName = Str(<<>>)],
   inner |-> <<" ">>, text |-> <<"<", " ", ">">>]
Bodies200 ==
  {BodyJsonWrapped, BodyJsonFlat, BodyJsonEmpty, BodyJsonNull, BodyJsonCut,
   BodyXml, BodyXmlPage, BodyXmlCut, BodyXmlBlank, BodyText}

\* Content-Type headers: absent, JSON, XML.
ContentTypes ==
  { <<>>, <<"a", "/", "j", "s", "o", "n">>, <<"a", "/", "x", "m", "l">> }

\* What a call of normaliseDeviceInfo ends with.
Throws == [threw |-> TRUE, info |-> NoInfo]
Returns(info) == [threw |-> FALSE, info |-> info]

\* xmlStr.trim().startsWith("<")
StartsWithLt(text) == LET t == Trim(text) IN t # <<>> /\ t[1] = "<"

\* hasData: some field other than _raw is not null.
hasData(parsed) ==
  \E f \in {parsed.deviceName, parsed.model, parsed.serialNumber,
            parsed.firmwareVersion, parsed.macAddress} : ~f.null

\* normaliseDeviceInfo(data, contentType); data is text (responseType "text").
normaliseDeviceInfo(data, contentType) ==
  LET ct == ToLowerCase(contentType)
  IN IF Includes(ct, <<"j", "s", "o", "n">>)
       THEN IF ~(data.syntax = "json" /\ data.wellFormed)
              THEN Throws                    \* JSON.parse throws
            ELSE IF data.root = "null"
              THEN Throws                    \* info.deviceName of null
            ELSE Returns(Identity(data.fields, data.inner))
     ELSE IF ~StartsWithLt(data.text)
       THEN Returns(NoInfo)
     ELSE LET parsed ==
                IF parseXml /\ data.syntax = "xml" /\ data.wellFormed
                  THEN Identity(IF data.root = "DeviceInfo"
                                  THEN data.fields ELSE NoFields, data.inner)
                  ELSE Identity(data.tagged, data.text)
          IN Returns(IF hasData(parsed) THEN parsed ELSE NoInfo)

\* The two request variants, tried in this order.
attempts ==
  << [path |-> "/ISAPI/System/deviceInfo?format=json", accept |-> "application/json"],
     [path |-> "/ISAPI/System/deviceInfo", accept |-> "text/xml, application/xml, */*"] >>

\* validateStatus of the probe's HTTP client: a status of 500 or more rejects.
ProbeValidateStatus(s) == s < 500

\* What a request can settle with: a transport error (timeout, connection
\* refused, TLS failure), or a response.
TransportErrors == {"timeout", "refused", "tls"}
ProbeStatuses == {200, 401, 404, 500}
Failed(e) ==
  [error |-> e, status |-> 0, wwwAuth |-> FALSE, contentType |-> <<>>, data |-> BodyText]
Answered(s, a, ct, d) ==
  [error |-> "none", status |-> s, wwwAuth |-> a, contentType |-> ct, data |-> d]

\* Of the first request only the status and the WWW-Authenticate header are read.
UnauthOutcomes ==
  {Failed(e) : e \in TransportErrors}
    \cup {Answered(s, FALSE, <<>>, BodyText) : s \in ProbeStatuses}
    \cup {Answered(401, TRUE, <<>>, BodyText)}

\* Of the second the status and, for a 200, the Content-Type and the body.
AuthedOutcomes ==
  {Failed(e) : e \in TransportErrors}
    \cup {Answered(s, FALSE, <<>>, BodyText) : s \in ProbeStatuses \ {200}}
    \cup {Answered(200, FALSE, ct, d) : ct \in ContentTypes, d \in Bodies200}

\* http.get rejects: no response, or a status validateStatus refuses.
Rejects(o) == o.error # "none" \/ ~ProbeValidateStatus(o.status)

NoProbeResult == [returned |-> FALSE, info |-> NoInfo]

\* http.get(reqPath, ...) of attempt n, with or without an Authorization header.
SendRequest(n, auth) ==
  probeSent' = Append(probeSent,
                      [path |-> attempts[n].path, accept |-> attempts[n].accept,
                       auth |-> auth])

\* The loop goes on: the next variant is tried, or null is returned when
\* there is none left.
NextAttempt ==
  IF probeAttempt < Len(attempts)
    THEN /\ probeAttempt' = probeAttempt + 1
         /\ SendRequest(probeAttempt + 1, FALSE)
         /\ probePc' = "probe"
         /\ UNCHANGED probeResult
    ELSE /\ probePc' = "done"
         /\ probeResult' = [returned |-> TRUE, info |-> NoInfo]
         /\ UNCHANGED <<probeAttempt, probeSent>>

\* Variant: the try block holds the two requests only.
TryCoversRequestsOnly == {"probe", "authed"}

\* The steps of an attempt that are inside its try block.
TryCovers == {"probe", "authed", "normalise"}

\* A step of an attempt throws: the empty catch swallows it and the loop goes
\* on, unless the step is outside the try block.
Thrown(step) ==
  IF step \in TryCovers
    THEN NextAttempt
    ELSE /\ probePc' = "raised"
         /\ UNCHANGED <<probeAttempt, probeSent, probeResult>>

\* The call: the first request of the first variant is sent.
ProbeCall ==
  /\ probePc = "idle"
  /\ probeAttempt' = 1
  /\ SendRequest(1, FALSE)
  /\ probePc' = "probe"
  /\ UNCHANGED <<parseXml, probeGot, probeResult>>

\* Variant: a 401 without a challenge is answered with the second request too.
ProbeSettlesNoChallengeCheck ==
  /\ probePc = "probe"
  /\ \E o \in UnauthOutcomes :
       /\ probeGot' = Append(probeGot, o)
       /\ IF Rejects(o) THEN Thrown("probe")
          ELSE IF o.status # 401 THEN NextAttempt
          ELSE /\ SendRequest(probeAttempt, TRUE)
               /\ probePc' = "authed"
               /\ UNCHANGED <<probeAttempt, probeResult>>
  /\ UNCHANGED parseXml

\* Step 1 settles: anything but a 401 with a challenge ends the attempt.
ProbeSettles ==
  /\ probePc = "probe"
  /\ \E o \in UnauthOutcomes :
       /\ probeGot' = Append(probeGot, o)
       /\ IF Rejects(o) THEN Thrown("probe")
          ELSE IF o.status # 401 THEN NextAttempt
          ELSE IF ~o.wwwAuth THEN NextAttempt
          ELSE /\ SendRequest(probeAttempt, TRUE)
               /\ probePc' = "authed"
               /\ UNCHANGED <<probeAttempt, probeResult>>
  /\ UNCHANGED parseXml

\* Step 2 settles: a 200 whose body normalises to an identity is returned;
\* anything else ends the attempt.
AuthedSettles ==
  /\ probePc = "authed"
  /\ \E o \in AuthedOutcomes :
       /\ probeGot' = Append(probeGot, o)
       /\ IF Rejects(o) THEN Thrown("authed")
          ELSE IF o.status # 200 THEN NextAttempt
          ELSE LET r == normaliseDeviceInfo(o.data, o.contentType)
               IN IF r.threw THEN Thrown("normalise")
                  ELSE IF r.info # NoInfo
                    THEN /\ probePc' = "done"
                         /\ probeResult' = [returned |-> TRUE, info |-> r.info]
                         /\ UNCHANGED <<probeAttempt, probeSent>>
                  ELSE NextAttempt
  /\ UNCHANGED parseXml

\* The state before probeDevice is called.
ProbeStart ==
  /\ probePc = "idle"
  /\ probeAttempt = 0
  /\ probeSent = <<>>
  /\ probeGot = <<>>
  /\ probeResult = NoProbeResult

\* While another component is checked no address is probed.
ProbeIdle == ProbeStart /\ parseXml = FALSE

----------------------------------------------------------------------------
(* The attendance aggregator: processAttendance                            *)

\* TIMEOUT_HOUR and TIMEOUT_MINUTE, at their defaults.
TIMEOUT_HOUR == 14
TIMEOUT_MINUTE == 30

Digits == {"0", "1", "2", "3", "4", "5", "6", "7", "8", "9"}

\* parseInt of one digit.
DigitVal(c) ==
  CASE c = "0" -> 0 [] c = "1" -> 1 [] c = "2" -> 2 [] c = "3" -> 3
    [] c = "4" -> 4 [] c = "5" -> 5 [] c = "6" -> 6 [] c = "7" -> 7
    [] c = "8" -> 8 [] c = "9" -> 9

\* isoString.replace(/Z$/, "")
StripZ(s) ==
  IF s # <<>> /\ s[Len(s)] = "Z" THEN SubSeq(s, 1, Len(s) - 1) ELSE s

\* .replace(/[+-]\d{2}:\d{2}$/, "")
StripOffset(s) ==
  LET n == Len(s)
  IN IF /\ n >= 6
        /\ s[n - 5] \in {"+", "-"}
        /\ s[n - 4] \in Digits /\ s[n - 3] \in Digits
        /\ s[n - 2] = ":"
        /\ s[n - 1] \in Digits /\ s[n] \in Digits
       THEN SubSeq(s, 1, n - 6)
       ELSE s

\* /T(\d{2}):(\d{2}):(\d{2})/ matches at position i of s.
TimeAt(s, i) ==
  /\ i + 8 <= Len(s)
  /\ s[i] = "T"
  /\ s[i + 1] \in Digits /\ s[i + 2] \in Digits /\ s[i + 3] = ":"
  /\ s[i + 4] \in Digits /\ s[i + 5] \in Digits /\ s[i + 6] = ":"
  /\ s[i + 7] \in Digits /\ s[i + 8] \in Digits

\* parseDeviceTime returns null.
NoTime == [null |-> TRUE, h |-> 0, m |-> 0, s |-> 0, raw |-> <<>>]

\* parseDeviceTime(isoString), of an optional string.
parseDeviceTime(isoString) ==
  IF ~Truthy(isoString) THEN NoTime
  ELSE LET local == StripOffset(StripZ(isoString.str))
           at == {i \in 1..Len(local) : TimeAt(local, i)}
       IN IF at = {} THEN NoTime
          ELSE LET i == CHOOSE j \in at : \A k \in at : j <= k
               IN [null |-> FALSE,
                   h |-> 10 * DigitVal(local[i + 1]) + DigitVal(local[i + 2]),
                   m |-> 10 * DigitVal(local[i + 4]) + DigitVal(local[i + 5]),
                   s |-> 10 * DigitVal(local[i + 7]) + DigitVal(local[i + 8]),
                   raw |-> SubSeq(local, i + 1, i + 8)]

\* Variant: at or after the threshold only if both hour and minute are.
IsTimeOutBothParts(t) == t.h >= TIMEOUT_HOUR /\ t.m >= TIMEOUT_MINUTE

isTimeOut(t) ==
  IF t.h > TIMEOUT_HOUR THEN TRUE
  ELSE IF t.h = TIMEOUT_HOUR /\ t.m >= TIMEOUT_MINUTE THEN TRUE
  ELSE FALSE

\* The order of localeCompare on the characters of "HH:MM:SS": punctuation
\* sorts before digits, digits by value.
CollationWeight(c) == IF c = ":" THEN 0 ELSE 1 + DigitVal(c)

\* compareTimeStrings(a, b) = a.localeCompare(b): negative, zero or positive.
\* Variant: a comparator that takes any two times for equal.
CompareTimeStringsEqual(a, b) == 0

RECURSIVE compareTimeStrings(_, _)
compareTimeStrings(a, b) ==
  IF a = <<>> /\ b = <<>> THEN 0
  ELSE IF a = <<>> THEN -1
  ELSE IF b = <<>> THEN 1
  ELSE IF CollationWeight(Head(a)) < CollationWeight(Head(b)) THEN -1
  ELSE IF CollationWeight(Head(a)) > CollationWeight(Head(b)) THEN 1
  ELSE compareTimeStrings(Tail(a), Tail(b))

\* Array.prototype.sort with the comparator above (stable): x is put after
\* the elements that do not compare greater.
RECURSIVE InsertSorted(_, _)
InsertSorted(x, list) ==
  IF list = <<>> THEN <<x>>
  ELSE IF compareTimeStrings(Head(list).raw, x.raw) <= 0
    THEN <<Head(list)>> \o InsertSorted(x, Tail(list))
    ELSE <<x>> \o list

\* Variant: the events are left in the order received.
SortNone(times) == times

RECURSIVE Sort(_)
Sort(times) ==
  IF times = <<>> THEN <<>>
  ELSE InsertSorted(times[Len(times)], Sort(SubSeq(times, 1, Len(times) - 1)))

\* (r.employeeNo ?? "").trim()
IdOf(r) == IF r.employeeNo.null THEN <<>> ELSE Trim(r.employeeNo.str)

\* Variant: the identifier is tested as received.
IsValidNoTrim(r) ==
  ~r.employeeNo.null /\ r.employeeNo.str # <<>> /\ r.employeeNo.str # <<"0">>

\* The filter of step 1.
IsValid(r) == IdOf(r) # <<>> /\ IdOf(r) # <<"0">>

\* Variant: the key is the identifier as received.
GroupKeyNoTrim(r) == r.employeeNo.str

\* The key of byStudent.
GroupKey(r) == Trim(r.employeeNo.str)

\* The keys of byStudent, in insertion order.
RECURSIVE Keys(_, _)
Keys(valid, seen) ==
  IF valid = <<>> THEN <<>>
  ELSE IF GroupKey(Head(valid)) \in seen THEN Keys(Tail(valid), seen)
  ELSE <<GroupKey(Head(valid))>> \o
         Keys(Tail(valid), seen \cup {GroupKey(Head(valid))})

\* byStudent.get(id): the events pushed under the key, in order.
RECURSIVE EventsOf(_, _)
EventsOf(valid, id) ==
  IF valid = <<>> THEN <<>>
  ELSE IF GroupKey(Head(valid)) = id
    THEN <<Head(valid)>> \o EventsOf(Tail(valid), id)
    ELSE EventsOf(Tail(valid), id)

\* events.map(parseDeviceTime).filter(time !== null)
RECURSIVE ParsedTimes(_)
ParsedTimes(evs) ==
  IF evs = <<>> THEN <<>>
  ELSE LET t == parseDeviceTime(Head(evs).eventTime)
       IN IF t.null THEN ParsedTimes(Tail(evs))
          ELSE <<t>> \o ParsedTimes(Tail(evs))

\* Variant: the first of the times that pass isTimeOut is left out.
FilterTimeOutAfterFirst(times) ==
  LET passing == SelectSeq(times, isTimeOut)
  IN IF passing = <<>> THEN <<>> ELSE Tail(passing)

RECURSIVE FilterTimeOut(_)
FilterTimeOut(times) ==
  IF times = <<>> THEN <<>>
  ELSE IF isTimeOut(Head(times))
    THEN <<Head(times)>> \o FilterTimeOut(Tail(times))
    ELSE FilterTimeOut(Tail(times))

\* Variant: time_in is the last of the sorted times, time_out the first of
\* those at or after the threshold.
CollapseLatestIn(adm_no, evs) ==
  LET sorted == Sort(ParsedTimes(evs))
      postThreshold == FilterTimeOut(sorted)
  IN IF sorted = <<>> THEN <<>>
     ELSE << [adm_no |-> adm_no,
              time_in |-> sorted[Len(sorted)].raw,
              time_out |-> IF postThreshold # <<>>
                             THEN Str(postThreshold[1].raw)
                             ELSE Null] >>

\* Step 3 for one student: no entry, or one.
Collapse(adm_no, evs) ==
  LET sorted == Sort(ParsedTimes(evs))
      postThreshold == FilterTimeOut(sorted)
  IN IF sorted = <<>> THEN <<>>
     ELSE << [adm_no |-> adm_no,
              time_in |-> sorted[1].raw,
              time_out |-> IF postThreshold # <<>>
                             THEN Str(postThreshold[Len(postThreshold)].raw)
                             ELSE Null] >>

RECURSIVE Filter(_)
Filter(recs) ==
  IF recs = <<>> THEN <<>>
  ELSE IF IsValid(Head(recs)) THEN <<Head(recs)>> \o Filter(Tail(recs))
  ELSE Filter(Tail(recs))

RECURSIVE CollapseAll(_, _)
CollapseAll(keys, valid) ==
  IF keys = <<>> THEN <<>>
  ELSE Collapse(Head(keys), EventsOf(valid, Head(keys)))
         \o CollapseAll(Tail(keys), valid)

\* processAttendance(records): an absent time_out is Null.
processAttendance(recs) ==
  LET valid == Filter(recs)
  IN CollapseAll(Keys(valid, {}), valid)

\* The raw records the terminal client can hand over.
EvA0810 ==
  [employeeNo |-> Str(<<"A">>),
   eventTime |-> Str(<<"2", "0", "T", "0", "8", ":", "1", "0", ":", "2", "2">>)]
EvA1435 ==
  [employeeNo |-> Str(<<"A">>),
   eventTime |-> Str(<<"2", "0", "T", "1", "4", ":", "3", "5", ":", "0", "7", "+", "0", "3", ":", "0", "0">>)]
EvA1429 ==
  [employeeNo |-> Str(<<" ", "A">>),
   eventTime |-> Str(<<"2", "0", "T", "1", "4", ":", "2", "9", ":", "5", "9">>)]
EvA1505 ==
  [employeeNo |-> Str(<<"A", " ">>),
   eventTime |-> Str(<<"2", "0", "T", "1", "5", ":", "0", "5", ":", "0", "0", "Z">>)]
EvA1430 ==
  [employeeNo |-> Str(<<"A">>),
   eventTime |-> Str(<<"2", "1", "T", "1", "4", ":", "3", "0", ":", "0", "0", "-", "0", "5", ":", "0", "0">>)]
EvANoT ==
  [employeeNo |-> Str(<<"A">>),
   eventTime |-> Str(<<"2", "0", " ", "1", "6", ":", "0", "0", ":", "0", "0">>)]
EvANull ==
  [employeeNo |-> Str(<<"A">>),
   eventTime |-> Null]
EvB0745 ==
  [employeeNo |-> Str(<<"B">>),
   eventTime |-> Str(<<"2", "0", "T", "0", "7", ":", "4", "5", ":", "0", "0">>)]
EvBNoT ==
  [employeeNo |-> Str(<<"B">>),
   eventTime |-> Str(<<"2", "0", "T", "7", ":", "4", "5">>)]
EvZero0600 ==
  [employeeNo |-> Str(<<"0">>),
   eventTime |-> Str(<<"2", "0", "T", "0", "6", ":", "0", "0", ":", "0", "0">>)]
EvZero1600 ==
  [employeeNo |-> Str(<<" ", "0">>),
   eventTime |-> Str(<<"2", "0", "T", "1", "6", ":", "0", "0", ":", "0", "0">>)]
EvEmpty0500 ==
  [employeeNo |-> Str(<<>>),
   eventTime |-> Str(<<"2", "0", "T", "0", "5", ":", "0", "0", ":", "0", "0">>)]
EvBlank1700 ==
  [employeeNo |-> Str(<<" ">>),
   eventTime |-> Str(<<"2", "0", "T", "1", "7", ":", "0", "0", ":", "0", "0">>)]
EvNoId1800 ==
  [employeeNo |-> Null,
   eventTime |-> Str(<<"2", "0", "T", "1", "8", ":", "0", "0", ":", "0", "0">>)]
EventPool ==
  {EvA0810, EvA1435, EvA1429, EvA1505,
   EvA1430, EvANoT, EvANull, EvB0745,
   EvBNoT, EvZero0600, EvZero1600, EvEmpty0500,
   EvBlank1700, EvNoId1800}

\* The lists of at most n records.
RECURSIVE RecordLists(_)
RecordLists(n) ==
  IF n = 0 THEN {<<>>}
  ELSE RecordLists(n - 1)
         \cup {Append(l, e) : l \in {x \in RecordLists(n - 1) : Len(x) = n - 1},
                              e \in EventPool}

NoOutput == <<>>

\* The call of processAttendance.
ProcessCall ==
  /\ aggPc = "idle"
  /\ aggPc' = "done"
  /\ processed' = processAttendance(records)
  /\ UNCHANGED records

\* The state before processAttendance is called.
AggStart == aggPc = "idle" /\ processed = NoOutput

\* While another component is checked the aggregator is not run.
AggIdle == AggStart /\ records = <<>>

----------------------------------------------------------------------------
(* The terminal client: HikvisionClient.request and getDeviceInfo           *)

\* validateStatus of the client's HTTP instance.
ClientValidateStatus(status) == status < 500

\* Response bodies as the HTTP library hands them over: a parsed object with
\* or without a DeviceInfo member, a text that is not JSON, or nothing.
DataWrapped == [kind |-> "object", wrapped |-> TRUE, fields |-> FieldsOf(InfoTarget)]
DataWrappedEmpty == [kind |-> "object", wrapped |-> TRUE, fields |-> NoFields]
DataFlat == [kind |-> "object", wrapped |-> FALSE, fields |-> FieldsOf(InfoOther)]
DataEmpty == [kind |-> "object", wrapped |-> FALSE, fields |-> NoFields]
DataText == [kind |-> "string", wrapped |-> FALSE, fields |-> NoFields]
DataNone == [kind |-> "none", wrapped |-> FALSE, fields |-> NoFields]
ClientData == {DataWrapped, DataWrappedEmpty, DataFlat, DataEmpty, DataText, DataNone}

\* What a request of the client can settle with.
ClientStatuses == {200, 304, 401, 404, 500}
ClientFailed(e) ==
  [error |-> e, status |-> 0, wwwAuth |-> FALSE, data |-> DataNone]
ClientAnswered(s, a, d) ==
  [error |-> "none", status |-> s, wwwAuth |-> a, data |-> d]
ClientOutcomes ==
  {ClientFailed(e) : e \in {"timeout", "refused"}}
    \cup {ClientAnswered(s, FALSE, d) : s \in ClientStatuses, d \in ClientData}
    \cup {ClientAnswered(401, TRUE, d) : d \in ClientData}

\* this.http.request rejects.
ClientRejects(o) == o.error # "none" \/ ~ClientValidateStatus(o.status)

\* What a call ends with: a value returned, or an error thrown.
NoCallResult == [kind |-> "none", data |-> DataNone, error |-> "none", hint |-> "none"]
CallReturns(d) == [kind |-> "returned", data |-> d, error |-> "none", hint |-> "none"]
CallThrows(e, h) == [kind |-> "threw", data |-> DataNone, error |-> e, hint |-> h]

\* data?.DeviceInfo ?? data
UnwrapDeviceInfo(d) ==
  IF d.kind = "object" /\ d.wrapped THEN [d EXCEPT !.wrapped = FALSE] ELSE d

\* What the caller of request gets: request itself hands the body over,
\* getDeviceInfo unwraps it; an error passes through both.
Deliver(d) ==
  /\ reqPc' = "returned"
  /\ reqResult' = CallReturns(IF reqVia = "getDeviceInfo" THEN UnwrapDeviceInfo(d) ELSE d)
Fail(e, h) ==
  /\ reqPc' = "threw"
  /\ reqResult' = CallThrows(e, h)

\* The call: step 1, the request without credentials.
RequestCall ==
  /\ reqPc = "idle"
  /\ reqPc' = "probe"
  /\ reqSent' = Append(reqSent, [auth |-> FALSE])
  /\ UNCHANGED <<reqVia, reqGot, reqResult>>

\* Step 1 settles.
ClientProbeSettles ==
  /\ reqPc = "probe"
  /\ \E o \in ClientOutcomes :
       /\ reqGot' = Append(reqGot, o)
       /\ IF ClientRejects(o)
            THEN Fail("unreachable", "network") /\ UNCHANGED reqSent
          ELSE IF o.status # 401
            THEN Deliver(o.data) /\ UNCHANGED reqSent
          ELSE IF ~o.wwwAuth
            THEN Fail("noChallenge", "credentials") /\ UNCHANGED reqSent
          ELSE /\ reqSent' = Append(reqSent, [auth |-> TRUE])
               /\ reqPc' = "authed"
               /\ UNCHANGED reqResult
  /\ UNCHANGED reqVia

\* Variant: a second 401 is answered with one more authenticated request.
ClientAuthedSettlesRetry ==
  /\ reqPc = "authed"
  /\ \E o \in ClientOutcomes :
       /\ reqGot' = Append(reqGot, o)
       /\ IF ClientRejects(o)
            THEN Fail("authFailed", "none") /\ UNCHANGED reqSent
          ELSE IF o.status = 401 /\ Len(reqSent) < 3
            THEN /\ reqSent' = Append(reqSent, [auth |-> TRUE])
                 /\ UNCHANGED <<reqPc, reqResult>>
          ELSE IF o.status >= 400
            THEN Fail("isapi", "none") /\ UNCHANGED reqSent
          ELSE Deliver(o.data) /\ UNCHANGED reqSent
  /\ UNCHANGED reqVia

\* Step 2 settles.
ClientAuthedSettles ==
  /\ reqPc = "authed"
  /\ \E o \in ClientOutcomes :
       /\ reqGot' = Append(reqGot, o)
       /\ IF ClientRejects(o) THEN Fail("authFailed", "none")
          ELSE IF o.status = 401 THEN Fail("authRejected", "credentials")
          ELSE IF o.status >= 400 THEN Fail("isapi", "none")
          ELSE Deliver(o.data)
  /\ UNCHANGED <<reqVia, reqSent>>

\* The state before the call.
ClientStart ==
  /\ reqPc = "idle"
  /\ reqSent = <<>>
  /\ reqGot = <<>>
  /\ reqResult = NoCallResult

\* While another component is checked the client is not used.
ClientIdle == ClientStart /\ reqVia = "request"

----------------------------------------------------------------------------
(* buildDigestAuth (hikvisionClient and deviceDiscovery.js)                   *)

\* The client nonces crypto.randomBytes can come up with.
MaxCnonces == 2

HexDigits == <<"0", "a", "f", "7", "3", "c">>

\* crypto.randomBytes(8).toString("hex"): a string the caller cannot choose.
Cnonces == { <<HexDigits[i]>> : i \in 1..MaxCnonces }

\* toUpperCase over the letters that occur in algorithm names and methods.
UpperChar(c) ==
  CASE c = "m" -> "M"
    [] c = "d" -> "D"
    [] c = "s" -> "S"
    [] c = "e" -> "E"
    [] OTHER -> c

ToUpperCase(s) == [i \in 1..Len(s) |-> UpperChar(s[i])]

\* The hash, uninterpreted: the hex digest of s is a string that names s.
md5(s) == <<"md5(">> \o s \o <<")">>

RECURSIVE Join(_)
\* The template string `${a}:${b}:...`.
Join(parts) ==
  IF Len(parts) = 1 THEN parts[1]
  ELSE parts[1] \o <<":">> \o Join(Tail(parts))

\* One parameter of a WWW-Authenticate header: key="value" or key=value.
Param(k, v, q) == [key |-> k, value |-> v, quoted |-> q]

RECURSIVE UntilComma(_)
\* What [^,\s]+ takes of an unquoted value.
UntilComma(v) ==
  IF v = <<>> \/ Head(v) = "," \/ Head(v) = " " THEN <<>>
  ELSE <<Head(v)>> \o UntilComma(Tail(v))

\* The text that follows key= in the header.
RawValue(p) == IF p.quoted THEN <<"\"">> \o p.value \o <<"\"">> ELSE p.value

RECURSIVE FirstQuoted(_, _)
FirstQuoted(header, key) ==
  IF header = <<>> THEN <<>>
  ELSE IF Head(header).key = key /\ Head(header).quoted /\ Head(header).value # <<>>
       THEN Head(header).value
       ELSE FirstQuoted(Tail(header), key)

RECURSIVE FirstUnquoted(_, _)
FirstUnquoted(header, key) ==
  IF header = <<>> THEN <<>>
  ELSE IF Head(header).key = key /\ UntilComma(RawValue(Head(header))) # <<>>
       THEN UntilComma(RawValue(Head(header)))
       ELSE FirstUnquoted(Tail(header), key)

\* digestParam: the quoted form first, then the unquoted one, else "".
digestParam(header, key) ==
  IF FirstQuoted(header, key) # <<>> THEN FirstQuoted(header, key)
  ELSE FirstUnquoted(header, key)

MD5 == <<"M", "D", "5">>
MD5_SESS == <<"M", "D", "5", "-", "S", "E", "S", "S">>
QopAuth == <<"a", "u", "t", "h">>
QopAuthInt == <<"a", "u", "t", "h", "-", "i", "n", "t">>
NonceCount == <<"0", "0", "0", "0", "0", "0", "0", "1">>

\* `${method.toUpperCase()}` in the client, `${method}` in deviceDiscovery.js.
Ha2Method(impl, method) == IF impl = "client" THEN ToUpperCase(method) ELSE method

NoHeader == <<>>

\* The header, as its parameters in the order they are written.
buildDigestAuth(impl, method, uri, username, password, wwwAuth, randomBytes) ==
  LET realm == digestParam(wwwAuth, "realm")
      nonce == digestParam(wwwAuth, "nonce")
      qop == digestParam(wwwAuth, "qop")
      opaque == digestParam(wwwAuth, "opaque")
      algo == IF digestParam(wwwAuth, "algorithm") # <<>>
              THEN digestParam(wwwAuth, "algorithm") ELSE MD5
      ha1 == IF ToUpperCase(algo) = MD5_SESS
             THEN md5(Join(<<md5(Join(<<username, realm, password>>)), nonce, <<>>>>))
             ELSE md5(Join(<<username, realm, password>>))
      ha2 == md5(Join(<<Ha2Method(impl, method), uri>>))
      withQop == qop = QopAuth \/ qop = QopAuthInt
      nc == NonceCount
      cnonce == randomBytes
      response == IF withQop
                  THEN md5(Join(<<ha1, nonce, nc, cnonce, qop, ha2>>))
                  ELSE md5(Join(<<ha1, nonce, ha2>>))
      extras == IF withQop
                THEN << <<"qop", qop>>, <<"nc", nc>>, <<"cnonce", cnonce>> >>
                ELSE <<>>
  IN  << <<"username", username>>, <<"realm", realm>>, <<"nonce", nonce>>,
         <<"uri", uri>>, <<"algorithm", algo>>, <<"response", response>> >>
      \o (IF opaque # <<>> THEN << <<"opaque", opaque>> >> ELSE <<>>)
      \o extras

\* The challenges a device sends: each parameter present or not.
RealmParams == { <<>>, <<Param("realm", <<"r">>, TRUE)>> }
NonceParams == { <<>>, <<Param("nonce", <<"n">>, TRUE)>> }
QopParams ==
  { <<>>,
    <<Param("qop", QopAuth, TRUE)>>,
    <<Param("qop", QopAuth, FALSE)>>,
    <<Param("qop", QopAuthInt, TRUE)>>,
    <<Param("qop", <<"a", "u", "t", "h", ",", "a", "u", "t", "h", "-", "i", "n", "t">>, TRUE)>> }
OpaqueParams == { <<>>, <<Param("opaque", <<"o">>, TRUE)>> }
AlgorithmParams ==
  { <<>>,
    <<Param("algorithm", MD5, FALSE)>>,
    <<Param("algorithm", <<"M", "D", "5", "-", "s", "e", "s", "s">>, FALSE)>>,
    <<Param("algorithm", <<"m", "d", "5", "-", "s", "e", "s", "s">>, TRUE)>> }

Challenges ==
  { r \o n \o q \o o \o a :
      r \in RealmParams, n \in NonceParams, q \in QopParams,
      o \in OpaqueParams, a \in AlgorithmParams }

\* The verbs the callers pass: request("GET" | "POST", ...), probeDevice "GET".
Methods == { <<"G", "E", "T">>, <<"P", "O", "S", "T">> }

DigestArgs(method, wwwAuth) ==
  [method |-> method, uri |-> <<"/", "i">>, username |-> <<"u">>,
   password |-> <<"p">>, wwwAuth |-> wwwAuth]

\* buildDigestAuth is called and returns the header.
BuildCall ==
  /\ digPc = "idle"
  /\ \E randomBytes \in Cnonces :
       digHeader' = buildDigestAuth(digImpl, digArgs.method, digArgs.uri,
                                    digArgs.username, digArgs.password,
                                    digArgs.wwwAuth, randomBytes)
  /\ digPc' = "built"
  /\ UNCHANGED <<digImpl, digArgs>>

DigestStart == digPc = "idle" /\ digHeader = NoHeader

\* buildDigestAuth is not being called.
DigestIdle ==
  /\ DigestStart
  /\ digImpl = "client"
  /\ digArgs = DigestArgs(<<"G", "E", "T">>, <<>>)

----------------------------------------------------------------------------
(* main (index.js)                                                           *)

\* The addresses the subnet scan probes.
ScannedHosts ==
  { subnetHosts(base)[i] : base \in SubnetPrefixes, i \in 1..HostsPerSubnet }

\* What ensureDeviceReachable returns: the configured address unchanged, or
\* the address of the match of the scan with changed = true.
Discoveries ==
  {[resolved |-> TRUE, ip |-> ConfiguredHost, changed |-> FALSE]}
    \cup {[resolved |-> TRUE, ip |-> h, changed |-> TRUE] : h \in ScannedHosts}

Unresolved == [resolved |-> FALSE, ip |-> ConfiguredHost, changed |-> FALSE]

NoExit == -1

\* A call of main to one of its collaborators; host is the address the call
\* goes to (the configured one for the calls that take no address).
Step(name, host) == [name |-> name, host |-> host]

\* The client is rebuilt on the new address only when the address changed.
ClientHostKept(d, host) == host

ClientHost(d, host) == IF d.changed THEN d.ip ELSE host

\* process.exit(1) in a catch block or after a failed sync.
Exit(step) ==
  /\ mainPc' = "exited"
  /\ failedStep' = step
  /\ exitCode' = 1

\* return, or the end of main.
Return ==
  /\ mainPc' = "returned"
  /\ UNCHANGED <<failedStep, exitCode>>

\* main builds the client on the configured address and calls
\* ensureDeviceReachable.
MainCall ==
  /\ mainPc = "idle"
  /\ terminalHost' = ConfiguredHost
  /\ activeHost' = ConfiguredHost
  /\ steps' = Append(steps, Step("discovery", ConfiguredHost))
  /\ mainPc' = "discovery"
  /\ UNCHANGED <<discovery, rawRecords, failedStep, exitCode>>

\* Discovery resolves: the client is rebound if the address changed and
\* getAttendanceEvents is called on it.
DiscoveryResolves ==
  /\ mainPc = "discovery"
  /\ \E d \in Discoveries :
       /\ discovery' = d
       /\ activeHost' = d.ip
       /\ terminalHost' = ClientHost(d, terminalHost)
       /\ steps' = Append(steps, Step("fetch", ClientHost(d, terminalHost)))
  /\ mainPc' = "fetch"
  /\ UNCHANGED <<rawRecords, failedStep, exitCode>>

\* Discovery throws: the catch block ends the process.
DiscoveryRejects ==
  /\ mainPc = "discovery"
  /\ Exit("discovery")
  /\ UNCHANGED <<terminalHost, activeHost, discovery, rawRecords, steps>>

\* The events arrive: nothing to do without events or without records,
\* otherwise the records are handed to syncToCloud.
FetchResolves ==
  /\ mainPc = "fetch"
  /\ \E raw \in RecordLists(MaxRecords) :
       /\ rawRecords' = raw
       /\ IF raw = <<>>
          THEN Return /\ UNCHANGED steps
          ELSE IF processAttendance(raw) = <<>>
          THEN /\ Return
               /\ steps' = Append(steps, Step("aggregation", ConfiguredHost))
          ELSE /\ mainPc' = "dispatch"
               /\ steps' = steps \o <<Step("aggregation", ConfiguredHost),
                                       Step("dispatch", ConfiguredHost)>>
               /\ UNCHANGED <<failedStep, exitCode>>
  /\ UNCHANGED <<terminalHost, activeHost, discovery>>

\* getAttendanceEvents throws: the catch block ends the process.
FetchRejects ==
  /\ mainPc = "fetch"
  /\ Exit("fetch")
  /\ UNCHANGED <<terminalHost, activeHost, discovery, rawRecords, steps>>

\* syncToCloud returns, with success or without.
DispatchSettles ==
  /\ mainPc = "dispatch"
  /\ \E success \in BOOLEAN : IF success THEN Return ELSE Exit("dispatch")
  /\ UNCHANGED <<terminalHost, activeHost, discovery, rawRecords, steps>>

MainStart ==
  /\ mainPc = "idle"
  /\ terminalHost = ConfiguredHost
  /\ activeHost = ConfiguredHost
  /\ discovery = Unresolved
  /\ rawRecords = <<>>
  /\ steps = <<>>
  /\ failedStep = "none"
  /\ exitCode = NoExit

\* main is not running.
MainIdle == MainStart

----------------------------------------------------------------------------
(* isTargetDevice, called on its own                                         *)

\* The values a field of an identity takes: absent, blank, or a text.
DeviceNames ==
  { Null, Str(<<" ">>), Str(<<"G", "a", "t", "e">>),
    Str(<<" ", "D", "S", "-", "K", "1", " ">>) }
Models == { Null, Str(<<"D", "S", "-", "K", "1">>), Str(<<"D", "S">>) }
SerialNumbers == { Null, Str(<<"7">>) }
FirmwareVersions == { Null, Str(<<"V", "4">>) }

\* _raw: the parsed object or the XML text, never empty for an identity.
RawPayloads == { <<"{", "}">>, <<"<", "V", "4", " ", "K", "1">>, <<"D", "S", "7">> }

\* The identities isTargetDevice is called with.
MatchInfos ==
  { [deviceName |-> n, model |-> m, serialNumber |-> s, firmwareVersion |-> f,
     macAddress |-> Null, raw |-> r] :
      n \in DeviceNames, m \in Models, s \in SerialNumbers,
      f \in FirmwareVersions, r \in RawPayloads }

\* The target names: unset, blank, part of a field, a field, more than a
\* field, text of the payload only, text found nowhere.
MatchTargets ==
  { <<>>, <<" ">>, <<"k", "1", " ">>, <<"D", "S", "-", "K", "1">>,
    <<"g", "a", "t", "e", "s">>, <<"V", "4">>, <<"t", "e", "7">> }

NoMatchResult == [returned |-> FALSE, value |-> FALSE]

\* isTargetDevice(info, targetName) is called and returns.
MatchCall ==
  /\ ~matchResult.returned
  /\ matchResult' = [returned |-> TRUE,
                     value |-> isTargetDevice(matchArgs.info, matchArgs.targetName)]
  /\ UNCHANGED matchArgs

MatchStart == matchResult = NoMatchResult

\* isTargetDevice is not being called.
MatchIdle == MatchStart /\ matchArgs = [info |-> NoInfo, targetName |-> <<>>]

----------------------------------------------------------------------------
(* Specifications                                                           *)

SyncInit ==
  /\ SyncStart
  /\ attendance \in 0..MaxRecords
  /\ retryAttempts \in 0..MaxRetryAttempts
  /\ GaeIdle
  /\ DiscIdle
  /\ ProbeIdle
  /\ AggIdle
  /\ ClientIdle
  /\ DigestIdle
  /\ MainIdle
  /\ MatchIdle

SyncNext ==
  \/ SyncCall /\ UNCHANGED <<gaeVars, discVars, probeVars, aggVars, clientVars, digestVars, mainVars, matchVars>>
  \/ PostResolves /\ UNCHANGED <<gaeVars, discVars, probeVars, aggVars, clientVars, digestVars, mainVars, matchVars>>
  \/ PostRejects /\ UNCHANGED <<gaeVars, discVars, probeVars, aggVars, clientVars, digestVars, mainVars, matchVars>>
  \/ SleepDone /\ UNCHANGED <<gaeVars, discVars, probeVars, aggVars, clientVars, digestVars, mainVars, matchVars>>

SyncSpec == SyncInit /\ [][SyncNext]_vars

PagesInit ==
  /\ GaeStart
  /\ allPages \in BOOLEAN
  /\ SyncIdle
  /\ DiscIdle
  /\ ProbeIdle
  /\ AggIdle
  /\ ClientIdle
  /\ DigestIdle
  /\ MainIdle
  /\ MatchIdle

PagesNext ==
  \/ GaeCall /\ UNCHANGED <<syncVars, discVars, probeVars, aggVars, clientVars, digestVars, mainVars, matchVars>>
  \/ FirstResponse /\ UNCHANGED <<syncVars, discVars, probeVars, aggVars, clientVars, digestVars, mainVars, matchVars>>
  \/ PageResponse /\ UNCHANGED <<syncVars, discVars, probeVars, aggVars, clientVars, digestVars, mainVars, matchVars>>
  \/ RequestThrows /\ UNCHANGED <<syncVars, discVars, probeVars, aggVars, clientVars, digestVars, mainVars, matchVars>>

PagesSpec == PagesInit /\ [][PagesNext]_vars

\* Every awaited request settles (the client's timeout sees to that), so a
\* call that can take a step does take one.
PagesFairSpec == PagesSpec /\ WF_vars(PagesNext)

DiscoveryInit ==
  /\ DiscStart
  /\ deviceName \in TargetNames
  /\ detected \in DetectedLists
  /\ SyncIdle
  /\ GaeIdle
  /\ ProbeIdle
  /\ AggIdle
  /\ ClientIdle
  /\ DigestIdle
  /\ MainIdle
  /\ MatchIdle

DiscoveryNext ==
  \/ DiscCall /\ UNCHANGED <<syncVars, gaeVars, probeVars, aggVars, clientVars, digestVars, mainVars, matchVars>>
  \/ VerifyDone /\ UNCHANGED <<syncVars, gaeVars, probeVars, aggVars, clientVars, digestVars, mainVars, matchVars>>
  \/ ProbeDone /\ UNCHANGED <<syncVars, gaeVars, probeVars, aggVars, clientVars, digestVars, mainVars, matchVars>>
  \/ SubnetDone /\ UNCHANGED <<syncVars, gaeVars, probeVars, aggVars, clientVars, digestVars, mainVars, matchVars>>

DiscoverySpec == DiscoveryInit /\ [][DiscoveryNext]_vars

ProbeInit ==
  /\ ProbeStart
  /\ parseXml \in BOOLEAN
  /\ SyncIdle
  /\ GaeIdle
  /\ DiscIdle
  /\ AggIdle
  /\ ClientIdle
  /\ DigestIdle
  /\ MainIdle
  /\ MatchIdle

ProbeNext ==
  \/ ProbeCall /\ UNCHANGED <<syncVars, gaeVars, discVars, aggVars, clientVars, digestVars, mainVars, matchVars>>
  \/ ProbeSettles /\ UNCHANGED <<syncVars, gaeVars, discVars, aggVars, clientVars, digestVars, mainVars, matchVars>>
  \/ AuthedSettles /\ UNCHANGED <<syncVars, gaeVars, discVars, aggVars, clientVars, digestVars, mainVars, matchVars>>

ProbeSpec == ProbeInit /\ [][ProbeNext]_vars

AggInit ==
  /\ AggStart
  /\ records \in RecordLists(MaxEvents)
  /\ SyncIdle
  /\ GaeIdle
  /\ DiscIdle
  /\ ProbeIdle
  /\ ClientIdle
  /\ DigestIdle
  /\ MainIdle
  /\ MatchIdle

AggNext == ProcessCall /\ UNCHANGED <<syncVars, gaeVars, discVars, probeVars, clientVars, digestVars, mainVars, matchVars>>

AggSpec == AggInit /\ [][AggNext]_vars

ClientInit ==
  /\ ClientStart
  /\ reqVia \in {"request", "getDeviceInfo"}
  /\ SyncIdle
  /\ GaeIdle
  /\ DiscIdle
  /\ ProbeIdle
  /\ AggIdle
  /\ DigestIdle
  /\ MainIdle
  /\ MatchIdle

ClientNext ==
  \/ RequestCall /\ UNCHANGED <<syncVars, gaeVars, discVars, probeVars, aggVars, digestVars, mainVars, matchVars>>
  \/ ClientProbeSettles /\ UNCHANGED <<syncVars, gaeVars, discVars, probeVars, aggVars, digestVars, mainVars, matchVars>>
  \/ ClientAuthedSettles /\ UNCHANGED <<syncVars, gaeVars, discVars, probeVars, aggVars, digestVars, mainVars, matchVars>>

ClientSpec == ClientInit /\ [][ClientNext]_vars

DigestInit ==
  /\ DigestStart
  /\ digImpl \in {"client", "discovery"}
  /\ digArgs \in { DigestArgs(method, wwwAuth) : method \in Methods, wwwAuth \in Challenges }
  /\ SyncIdle
  /\ GaeIdle
  /\ DiscIdle
  /\ ProbeIdle
  /\ AggIdle
  /\ ClientIdle
  /\ MainIdle
  /\ MatchIdle

DigestNext == BuildCall /\ UNCHANGED <<syncVars, gaeVars, discVars, probeVars, aggVars, clientVars, mainVars, matchVars>>

DigestSpec == DigestInit /\ [][DigestNext]_vars

MainInit ==
  /\ MainStart
  /\ SyncIdle
  /\ GaeIdle
  /\ DiscIdle
  /\ ProbeIdle
  /\ AggIdle
  /\ ClientIdle
  /\ DigestIdle
  /\ MatchIdle

MainNext ==
  \/ MainCall /\ UNCHANGED <<syncVars, gaeVars, discVars, probeVars, aggVars, clientVars, digestVars, matchVars>>
  \/ DiscoveryResolves /\ UNCHANGED <<syncVars, gaeVars, discVars, probeVars, aggVars, clientVars, digestVars, matchVars>>
  \/ DiscoveryRejects /\ UNCHANGED <<syncVars, gaeVars, discVars, probeVars, aggVars, clientVars, digestVars, matchVars>>
  \/ FetchResolves /\ UNCHANGED <<syncVars, gaeVars, discVars, probeVars, aggVars, clientVars, digestVars, matchVars>>
  \/ FetchRejects /\ UNCHANGED <<syncVars, gaeVars, discVars, probeVars, aggVars, clientVars, digestVars, matchVars>>
  \/ DispatchSettles /\ UNCHANGED <<syncVars, gaeVars, discVars, probeVars, aggVars, clientVars, digestVars, matchVars>>

MainSpec == MainInit /\ [][MainNext]_vars

MatchInit ==
  /\ MatchStart
  /\ matchArgs \in [info : MatchInfos, targetName : MatchTargets]
  /\ SyncIdle
  /\ GaeIdle
  /\ DiscIdle
  /\ ProbeIdle
  /\ AggIdle
  /\ ClientIdle
  /\ DigestIdle
  /\ MainIdle

MatchNext == MatchCall /\ UNCHANGED <<syncVars, gaeVars, discVars, probeVars, aggVars, clientVars, digestVars, mainVars>>

MatchSpec == MatchInit /\ [][MatchNext]_vars

----------------------------------------------------------------------------
(* Claims about syncToCloud, checked under SyncSpec                         *)

\* How the claims classify a settled attempt (by its status alone).
Is2xx(o) == o.response /\ o.status \in 200..299
Is4xx(o) == o.response /\ o.status \in 400..499
IsTransient(o) == ~o.response \/ o.status \in 500..599
LastOutcome == outcomes[Len(outcomes)]

\* C1: for a non-empty record list the number of POSTs issued in one call
\* never exceeds the configured retryAttempts, in any state of the call.
C1_PostsBounded == attendance > 0 => posts <= retryAttempts

C1_Witness ==
  /\ syncPc = "done" /\ attendance > 0
  /\ retryAttempts >= 2 /\ posts = retryAttempts

\* C2: once an attempt was answered with a 4xx status it is the last attempt:
\* no POST follows it and the call has returned success = false, sent = 0.
C2_ClientErrorAborts ==
  \A i \in 1..Len(outcomes) :
    Is4xx(outcomes[i]) =>
      /\ i = Len(outcomes) /\ posts = i /\ postsInFlight = 0
      /\ syncPc = "done"
      /\ syncResult.returned /\ ~syncResult.success /\ syncResult.sent = 0

C2_Witness ==
  /\ Len(outcomes) = 2 /\ Is4xx(outcomes[2]) /\ retryAttempts = 3
  /\ syncPc = "done"

\* C3: if attempts 1..k-1 failed with a network error or a 5xx response and
\* attempt k got a 2xx response, the call has returned success = true with
\* sent = the number of records, and exactly k POSTs were issued.
C3_SuccessAfterTransient ==
  \A k \in 1..Len(outcomes) :
    ( /\ \A i \in 1..(k-1) : IsTransient(outcomes[i])
      /\ Is2xx(outcomes[k]) ) =>
      /\ k <= retryAttempts
      /\ syncPc = "done"
      /\ syncResult.returned /\ syncResult.success
      /\ syncResult.sent = attendance
      /\ syncResult.response = outcomes[k].data
      /\ posts = k /\ Len(outcomes) = k /\ postsInFlight = 0

C3_Witness ==
  /\ retryAttempts = 3 /\ Len(outcomes) = 2
  /\ outcomes[1].response /\ outcomes[1].status = 500
  /\ outcomes[2].response /\ outcomes[2].status = 200
  /\ syncResult.success

\* C4: when the call has returned and every attempt made failed with a
\* network error or a 5xx response, exactly retryAttempts POSTs were issued
\* and the result is success = false, sent = 0, response = the body of the
\* last failed attempt, or null when that failure carried no response.
C4_Exhaustion ==
  ( /\ syncPc = "done" /\ attendance > 0
    /\ \A i \in 1..Len(outcomes) : IsTransient(outcomes[i]) ) =>
    /\ posts = retryAttempts /\ Len(outcomes) = retryAttempts
    /\ syncResult.returned /\ ~syncResult.success /\ syncResult.sent = 0
    /\ syncResult.response =
         (IF Len(outcomes) > 0 /\ LastOutcome.response
            THEN LastOutcome.data ELSE "null")

C4_Witness ==
  /\ syncPc = "done" /\ retryAttempts = 3 /\ Len(outcomes) = 3
  /\ \A i \in 1..3 : IsTransient(outcomes[i])
  /\ ~outcomes[2].response
  /\ outcomes[3].response /\ outcomes[3].data = "body"
  /\ syncResult.response = "body"

\* C5: a call with an empty record list issues no POST and returns success
\* with a count of zero.
C5_EmptyShortCircuit ==
  attendance = 0 =>
    /\ posts = 0 /\ postsInFlight = 0
    /\ syncPc \in {"idle", "done"}
    /\ syncPc = "done" =>
         (syncResult.returned /\ syncResult.success /\ syncResult.sent = 0)

C5_Witness == attendance = 0 /\ retryAttempts > 0 /\ syncPc = "done"

\* C6: at most one POST is in flight; attempt k+1 is issued only when attempt
\* k has settled and one full retry delay was waited after it (so the POSTs
\* issued are one more than the delays waited, and while a POST is in flight
\* or a delay runs, the settled attempts are exactly the earlier ones).
C6_SequentialRetries ==
  /\ postsInFlight <= 1
  /\ postsInFlight = (IF syncPc = "posting" THEN 1 ELSE 0)
  /\ Len(outcomes) = posts - postsInFlight
  /\ posts > 0 => sleeps = posts - 1
  /\ syncPc = "sleeping" => (posts = attempt /\ ~Is4xx(LastOutcome))

C6_Witness == syncPc = "posting" /\ posts = 3 /\ sleeps = 2

----------------------------------------------------------------------------
(* Claims about getAttendanceEvents, checked under PagesSpec / PagesFairSpec *)

RECURSIVE Concat(_)
\* The concatenation of a sequence of batches.
Concat(bs) == IF bs = <<>> THEN <<>> ELSE Head(bs) \o Concat(Tail(bs))

\* Entries received in the first n pages.
ReceivedIn(n) == Len(Concat(SubSeq(pages, 1, n)))

\* C7: whatever total the device declares and whatever it puts in its pages,
\* the call ends: it returns, or it raises because a request failed; it never
\* goes on requesting pages for ever.
C7_Terminates ==
  /\ <>(gaePc = "returned" \/ gaePc = "threw")
  /\ [](gaePc # "diverged" /\ Len(requests) <= MaxRequests)

\* A call that ended by an empty page after three requests, short of total.
C7_Witness ==
  /\ gaePc = "returned" /\ Len(requests) >= 3
  /\ Len(returned) < total
  /\ pages[Len(pages)] = <<>>

\* C8 (as claimed): the list returned is never longer than totalMatches.
C8_AtMostTotal == gaePc = "returned" => Len(returned) <= total

\* C9 (as claimed): one request at a time, the first at offset 0, each later
\* one at the number of entries received before it, offsets strictly
\* increasing, and the list returned is the pages concatenated in order.
C9_OffsetsAsClaimed ==
  /\ reqInFlight <= 1
  /\ Len(requests) >= 1 => requests[1] = 0
  /\ \A k \in 2..Len(requests) : requests[k] = ReceivedIn(k - 1)
  /\ \A k \in 1..(Len(requests) - 1) : requests[k] < requests[k + 1]
  /\ gaePc = "returned" => returned = MapNormalise(Concat(pages))

\* What does hold of the offsets: everything C9 says but strict increase,
\* which holds from the second request on only.
RunningOffsets ==
  /\ reqInFlight <= 1
  /\ Len(requests) >= 1 => requests[1] = 0
  /\ \A k \in 2..Len(requests) : requests[k] = ReceivedIn(k - 1)
  /\ \A k \in 2..(Len(requests) - 1) : requests[k] < requests[k + 1]
  /\ gaePc = "returned" => returned = MapNormalise(Concat(pages))
  /\ Len(requests) <= total + 1
  /\ gaePc # "diverged"

----------------------------------------------------------------------------
(* Claims about ensureDeviceReachable, checked under DiscoverySpec          *)

\* C10: once the probe of the configured address has come back with an
\* identity, the call has returned the configured address with
\* changed = false and that identity, whether or not it matches the target
\* name, and there was no scan: detectAllSubnets was not called, no address
\* was probed by a scan, nothing was accumulated and no write of the
\* configuration was requested.
C10_VerifiedSkipsScan ==
  (discPc \notin {"idle", "verify"} /\ currentInfo # NoInfo) =>
    /\ discPc = "done"
    /\ discResult = [returned |-> TRUE, ip |-> ConfiguredHost,
                     changed |-> FALSE, info |-> currentInfo]
    /\ ~detectCalled
    /\ \A a \in Addresses : scanProbes[a] = 0
    /\ InFlight = 0 /\ verifyProbes = 1
    /\ found = <<>>
    /\ envWrites = <<>>
    /\ envFileHost = ConfiguredHost /\ processEnvHost = ConfiguredHost

\* The configured address answered with an identity that is not the target's.
C10_Witness ==
  /\ discPc = "done" /\ currentInfo = InfoOther
  /\ deviceName # <<>> /\ ~isTargetDevice(currentInfo, deviceName)
  /\ Len(uniqueSubnets) = 2

\* The probes of the subnet being scanned that were started and have not
\* come back, counted from the probe and slot counters.
RECURSIVE SumTo(_, _)
SumTo(f, n) == IF n = 0 THEN 0 ELSE f[n] + SumTo(f, n - 1)
ScanOutstanding ==
  SumTo([i \in 1..HostsPerSubnet |->
           scanProbes[subnetHosts(uniqueSubnets[subnetPos])[i]]], HostsPerSubnet)
    - SumTo(slotWrites, HostsPerSubnet)

\* C11: in every state of a subnet scan the number of probes in flight is at
\* most the cap SCAN_CONCURRENCY, whatever the number of hosts and the order
\* in which probes come back; outside a scan none is in flight.
C11_InFlightCapped ==
  /\ InFlight <= ScanWorkers
  /\ discPc = "scan" => ScanOutstanding = InFlight
  /\ discPc # "scan" => InFlight = 0

\* The cap is reached again after a probe came back and the last host was claimed.
C11_Witness ==
  /\ discPc = "scan" /\ InFlight = ScanWorkers
  /\ ScanWorkers < HostsPerSubnet /\ index = HostsPerSubnet
  /\ ScanOutstanding = ScanWorkers

\* What holds of the hosts of the subnet being scanned in every state: no host
\* is probed twice, no two workers hold the same host, no result slot is
\* written twice, and a host a worker still awaits has no result yet.
OneProbePerHost ==
  /\ \A a \in Addresses : scanProbes[a] <= 1
  /\ \A w1, w2 \in Workers :
       (w1 # w2 /\ workerItem[w1] # 0) => workerItem[w1] # workerItem[w2]
  /\ \A i \in 1..HostsPerSubnet : slotWrites[i] <= 1
  /\ \A w \in Workers : workerItem[w] # 0 => slotWrites[workerItem[w]] = 0

\* What holds when the scan of a subnet ends (the call ends, or the scan of
\* the next subnet starts): every host of it was probed once, every probe has
\* come back and every result slot was written once.
ScanEndsComplete ==
  (discPc = "scan" /\ (discPc' # "scan" \/ subnetPos' # subnetPos)) =>
    /\ InFlight = 0
    /\ \A i \in 1..HostsPerSubnet :
         /\ slotWrites[i] = 1
         /\ scanProbes[subnetHosts(uniqueSubnets[subnetPos])[i]] = 1

\* C12: for every subnet whose scan is started, under every interleaving of
\* probe completions each host address is claimed by one worker and probed
\* exactly once, no result slot is written twice, and the scan of the subnet
\* ends only after all its probes have come back, also when a matching
\* identity was found earlier in that subnet.
C12_EachHostOnce == []OneProbePerHost /\ [][ScanEndsComplete]_vars

\* The first identity accumulated matched the target, and the scan still ran
\* until every host of the subnet was probed and had answered.
C12_Witness ==
  /\ discPc = "done" /\ discResult.changed
  /\ Len(found) >= 2 /\ isTargetDevice(found[1].info, deviceName)
  /\ found[1].ip = subnetHosts(uniqueSubnets[1])[2]
  /\ found[2].ip = subnetHosts(uniqueSubnets[1])[1]
  /\ \A i \in 1..HostsPerSubnet : slotWrites[i] = 1

\* The hosts of the unique subnet at position p of which a scan probe was started.
ProbedIn(p) ==
  {i \in 1..HostsPerSubnet : scanProbes[subnetHosts(uniqueSubnets[p])[i]] > 0}

\* An identity accumulated from a subnet before position p matches the target.
MatchBefore(p) ==
  \E k \in 1..Len(found), q \in 1..(p - 1) :
    /\ found[k].ip[1] = uniqueSubnets[q]
    /\ deviceName # <<>> /\ isTargetDevice(found[k].info, deviceName)

\* C13: subnets are scanned one after another in the order of the unique
\* list: a host of a subnet is probed only when every host of every earlier
\* subnet was probed and has answered, and no identity accumulated from the
\* earlier subnets matches the target name; and when the call has ended after
\* a scan with no matching identity accumulated, every unique subnet was
\* scanned in full.
C13_SubnetsInTurn ==
  /\ \A p \in 1..Len(uniqueSubnets) :
       ProbedIn(p) # {} =>
         /\ p <= subnetPos
         /\ ~MatchBefore(p)
         /\ \A q \in 1..(p - 1) : ProbedIn(q) = 1..HostsPerSubnet
         /\ p < subnetPos => ProbedIn(p) = 1..HostsPerSubnet
  /\ \A w \in Workers : workerItem[w] # 0 => workerItem[w] \in ProbedIn(subnetPos)
  /\ ( /\ discPc \in {"done", "failed"} /\ subnetPos > 0
       /\ ~(deviceName # <<>> /\ SomeMatch(found)) ) =>
       /\ subnetPos = Len(uniqueSubnets)
       /\ \A p \in 1..Len(uniqueSubnets) : ProbedIn(p) = 1..HostsPerSubnet

\* A match was accumulated in the first of two unique subnets: the call has
\* ended and no host of the second was probed.
C13_Witness ==
  /\ discPc = "done" /\ discResult.changed
  /\ Len(uniqueSubnets) = 2 /\ subnetPos = 1
  /\ ProbedIn(1) = 1..HostsPerSubnet /\ ProbedIn(2) = {}

\* C14: whenever the call has returned with changed = true, the target name
\* is non-empty, the identity returned satisfies the matching predicate
\* against it, and the address returned is that of the scan probe that
\* produced this identity; a scanned device that does not match is never
\* returned.
C14_ReturnsOnlyMatch ==
  (discResult.returned /\ discResult.changed) =>
    /\ discPc = "done"
    /\ deviceName # <<>>
    /\ isTargetDevice(discResult.info, deviceName)
    /\ deviceName = <<"k", "1", " ">> => discResult.info = InfoTarget
    /\ \E k \in 1..Len(found) :
         found[k] = [ip |-> discResult.ip, info |-> discResult.info]
    /\ scanProbes[discResult.ip] = 1

\* A device that does not match answered first; the one that matches, found
\* after it, is the one returned.
C14_Witness ==
  /\ discResult.returned /\ discResult.changed
  /\ Len(found) >= 2
  /\ ~isTargetDevice(found[1].info, deviceName)
  /\ discResult.ip = found[2].ip /\ discResult.info = InfoTarget

\* The positions in found of the identities whose model is the target name.
ModelIsTarget ==
  {k \in 1..Len(found) : deviceName # <<>> /\ found[k].info.model = Str(deviceName)}

\* The call has ended after a scan (so the configured address did not answer).
ScanEnded == discPc \in {"done", "failed"} /\ subnetPos > 0

\* C15 as stated: when the configured address did not answer and exactly one
\* scanned host returned an identity whose model equals the target name, the
\* call returns that host's address with changed = true.
C15_AsClaimed ==
  (ScanEnded /\ currentInfo = NoInfo /\ Cardinality(ModelIsTarget) = 1) =>
    \A k \in ModelIsTarget :
      /\ discPc = "done"
      /\ discResult.returned /\ discResult.changed
      /\ discResult.ip = found[k].ip

\* C15, amended: when the configured address did not answer, exactly one
\* scanned host returned an identity whose model equals the target name, and
\* no identity accumulated before it matches the target name, the call
\* returns that host's address and identity with changed = true.
C15_ExactModelFirst ==
  (ScanEnded /\ currentInfo = NoInfo /\ Cardinality(ModelIsTarget) = 1) =>
    \A k \in ModelIsTarget :
      (\A j \in 1..(k - 1) : ~isTargetDevice(found[j].info, deviceName)) =>
        /\ discPc = "done"
        /\ discResult = [returned |-> TRUE, ip |-> found[k].ip,
                         changed |-> TRUE, info |-> found[k].info]

\* The one host whose model is the target name answered first, another
\* device answered after it, and the call returned the former.
C15_Witness ==
  /\ ScanEnded /\ currentInfo = NoInfo /\ ModelIsTarget = {1}
  /\ Len(found) >= 2 /\ found[2].info = InfoOther
  /\ discResult.changed /\ discResult.ip = found[1].ip

\* The prefixes an error message cites, and those that were detected.
CitedPrefixes == {discError.subnets[i] : i \in 1..Len(discError.subnets)}
DetectedPrefixes == {detected[i] : i \in 1..Len(detected)}

\* C16: when the call has ended, the configured address did not answer and
\* no scanned host returned an identity, the call has failed, with no
\* address returned and no write requested; if subnets were detected, the
\* error is the no-devices error, it cites every unique detected prefix,
\* each once, and every host of every one of these prefixes was probed and
\* had answered before the failure.
C16_NoDevicesCitesAll ==
  ( /\ discPc \in {"done", "failed"}
    /\ verifyProbes = 1 /\ currentInfo = NoInfo /\ found = <<>> ) =>
    /\ discPc = "failed" /\ ~discResult.returned /\ envWrites = <<>>
    /\ detected = <<>> => discError.kind = "detect"
    /\ detected # <<>> =>
         /\ discError.kind = "noDevices"
         /\ CitedPrefixes = DetectedPrefixes
         /\ Len(discError.subnets) = Cardinality(DetectedPrefixes)
         /\ \A a \in Addresses : a[1] \in DetectedPrefixes => scanProbes[a] = 1
         /\ InFlight = 0
         /\ subnetPos = Len(discError.subnets)

\* Three interfaces on two subnets, nothing answered: both prefixes are cited.
C16_Witness ==
  /\ discPc = "failed" /\ discError.kind = "noDevices"
  /\ Len(detected) = 3 /\ CitedPrefixes = {"10.0.1", "10.0.2"}
  /\ \A a \in Addresses : scanProbes[a] = 1

\* C17: when the call has ended after a scan in which one or more hosts
\* returned an identity and none of them matches the non-empty target name,
\* the call has failed with the no-match error, no address was returned, no
\* write of the configuration was requested and the stored addresses are
\* unchanged, and the failure lists every candidate found (address and
\* identity), in the order found.
C17_NoMatchFails ==
  ( /\ ScanEnded /\ found # <<>> /\ deviceName # <<>>
    /\ \A k \in 1..Len(found) : ~isTargetDevice(found[k].info, deviceName) ) =>
    /\ discPc = "failed" /\ discError.kind = "noMatch"
    /\ discResult = NoDiscovery
    /\ envWrites = <<>>
    /\ envFileHost = ConfiguredHost /\ processEnvHost = ConfiguredHost
    /\ discError.candidates = found
    /\ \A a \in Addresses :
         Cardinality({k \in 1..Len(found) : found[k].ip = a}) <= 1

\* Two hosts answered, neither is the target.
C17_Witness ==
  /\ discPc = "failed" /\ discError.kind = "noMatch"
  /\ Len(discError.candidates) = 2 /\ deviceName # <<>>
  /\ discError.candidates[1].ip # discError.candidates[2].ip

\* C18 as stated: whenever the target name is empty or unset, the call fails
\* with the missing-target-name error: never with another error and never
\* with an address.
C18_AsClaimed ==
  (deviceName = <<>> /\ discPc \in {"done", "failed"}) =>
    /\ discPc = "failed" /\ discError.kind = "missingName"
    /\ ~discResult.returned

\* C18, amended: whenever the target name is empty or unset and the call has
\* ended after a scan in which some host returned an identity, it has failed
\* with the missing-target-name error; and with an empty or unset target
\* name the call never fails with the no-match error, never returns
\* changed = true and never requests a write of the configuration.
C18_MissingNameAfterScan ==
  (deviceName = <<>> /\ discPc \in {"done", "failed"}) =>
    /\ (ScanEnded /\ found # <<>>) =>
         /\ discPc = "failed" /\ discError.kind = "missingName"
         /\ discResult = NoDiscovery
    /\ discError.kind # "noMatch"
    /\ ~(discResult.returned /\ discResult.changed)
    /\ envWrites = <<>>

\* No target name, a device answered the scan: the missing-name failure.
C18_Witness ==
  /\ deviceName = <<>> /\ discPc = "failed" /\ discError.kind = "missingName"
  /\ found # <<>> /\ Len(uniqueSubnets) = 2 /\ subnetPos = 2

\* C19: whenever the call has returned with changed = true, it has requested
\* once that the returned address be persisted as TERMINAL_HOST, and
\* process.env.TERMINAL_HOST is the returned address.
C19_PersistedAndPatched ==
  (discResult.returned /\ discResult.changed) =>
    /\ envWrites = <<discResult.ip>>
    /\ processEnvHost = discResult.ip

\* The part of C19 the code keeps: the write is always requested, and when
\* it succeeds both the file and process.env hold the returned address.
C19_PersistRequested ==
  (discResult.returned /\ discResult.changed) =>
    /\ envWrites = <<discResult.ip>>
    /\ envFileHost = processEnvHost
    /\ processEnvHost \in {discResult.ip, ConfiguredHost}

----------------------------------------------------------------------------
(* Claims about probeDevice, checked under ProbeSpec                        *)

\* The request settled with a failure: a transport error, a 5xx status, or
\* (the authenticated request) a 200 whose body cannot be normalised.
FailingOutcome(i) ==
  \/ Rejects(probeGot[i])
  \/ /\ probeSent[i].auth /\ probeGot[i].status = 200
     /\ normaliseDeviceInfo(probeGot[i].data, probeGot[i].contentType).threw

\* C20: probeDevice never raises.  Whatever its requests settle with
\* (timeout, refusal, TLS failure, 5xx, a body that cannot be parsed), the
\* call is awaiting a request or has returned; a failure in the first variant
\* is followed by the first request of the second variant, a failure in the
\* second by the return of 'no identity'; and what is returned is 'no
\* identity' or the identity the last response normalises to.
C20_ProbeNeverRaises ==
  /\ probePc \in {"idle", "probe", "authed", "done"}
  /\ probePc \in {"probe", "authed"} =>
       /\ Len(probeSent) = Len(probeGot) + 1 /\ ~probeResult.returned
  /\ probePc = "done" =>
       /\ Len(probeSent) = Len(probeGot) /\ probeResult.returned
       /\ \/ probeResult.info = NoInfo
          \/ LET o == probeGot[Len(probeGot)]
             IN /\ ~Rejects(o) /\ o.status = 200
                /\ normaliseDeviceInfo(o.data, o.contentType) = Returns(probeResult.info)
  /\ \A i \in 1..Len(probeGot) :
       FailingOutcome(i) =>
         IF probeSent[i].path = attempts[1].path
           THEN /\ Len(probeSent) > i
                /\ probeSent[i + 1] = [path |-> attempts[2].path,
                                       accept |-> attempts[2].accept, auth |-> FALSE]
           ELSE /\ i = Len(probeGot) /\ probePc = "done"
                /\ probeResult = [returned |-> TRUE, info |-> NoInfo]

\* The first variant got a 200 whose JSON body is cut short, the second a
\* timeout of its authenticated request: 'no identity' is returned.
C20_Witness ==
  /\ probePc = "done" /\ Len(probeGot) = 4
  /\ probeGot[2].status = 200 /\ probeGot[2].data = BodyJsonCut
  /\ Includes(probeGot[2].contentType, <<"j", "s", "o", "n">>)
  /\ probeGot[4].error = "timeout"
  /\ probeResult = [returned |-> TRUE, info |-> NoInfo]

----------------------------------------------------------------------------
(* Claims about processAttendance, checked under AggSpec                    *)

\* The person an event belongs to, and its time of day, if it has one.
PersonOf(i) == IdOf(records[i])
TimeOf(i) == parseDeviceTime(records[i].eventTime)
SecondsOfDay(t) == 3600 * t.h + 60 * t.m + t.s

\* An identifier that is empty or zero: absent, blank, or "0", whitespace
\* around it aside.
NoPerson(i) ==
  \/ records[i].employeeNo.null
  \/ Trim(records[i].employeeNo.str) \in {<<>>, <<"0">>}

\* The events of person p that have a parseable timestamp.
ParseableOf(p) ==
  {i \in 1..Len(records) : ~NoPerson(i) /\ PersonOf(i) = p /\ ~TimeOf(i).null}

\* C21: for every person in the output, time_in is the time of day of one of
\* that person's events with a parseable timestamp, and no such event of
\* that person has an earlier time of day.
C21_TimeInEarliest ==
  aggPc = "done" =>
    \A k \in 1..Len(processed) :
      \E i \in ParseableOf(processed[k].adm_no) :
        /\ processed[k].time_in = TimeOf(i).raw
        /\ \A j \in ParseableOf(processed[k].adm_no) :
             SecondsOfDay(TimeOf(i)) <= SecondsOfDay(TimeOf(j))

\* Three events of one person, the earliest received second.
C21_Witness ==
  /\ aggPc = "done"
  /\ records = <<EvA1435, EvA0810, EvA1505>>
  /\ Len(processed) = 1
  /\ processed[1].time_in = <<"0", "8", ":", "1", "0", ":", "2", "2">>

\* At or after the threshold: a later hour, or the same hour and a minute
\* that is not earlier.
AtOrAfterThreshold(t) ==
  t.h > TIMEOUT_HOUR \/ (t.h = TIMEOUT_HOUR /\ t.m >= TIMEOUT_MINUTE)

\* C22: for every person in the output, time_out is present if and only if
\* the person has a parseable event at or after the threshold, and then it is
\* the time of day of the latest such event; a person whose events are all
\* before the threshold has time_in only.
C22_TimeOutLatestAfter ==
  aggPc = "done" =>
    \A k \in 1..Len(processed) :
      LET after == {i \in ParseableOf(processed[k].adm_no) :
                      AtOrAfterThreshold(TimeOf(i))}
      IN /\ processed[k].time_out.null <=> after = {}
         /\ after # {} =>
              \E i \in after :
                /\ processed[k].time_out = Str(TimeOf(i).raw)
                /\ \A j \in after :
                     SecondsOfDay(TimeOf(j)) <= SecondsOfDay(TimeOf(i))

\* One person with an event after the threshold hour at an early minute,
\* another with an event before the threshold only.
C22_Witness ==
  /\ aggPc = "done"
  /\ records = <<EvA1505, EvB0745, EvA1429>>
  /\ Len(processed) = 2
  /\ processed[1].time_out = Str(<<"1", "5", ":", "0", "5", ":", "0", "0">>)
  /\ processed[2].time_out = Null

\* The records without those that carry no person.
RECURSIVE WithPerson(_)
WithPerson(is) ==
  IF is = <<>> THEN <<>>
  ELSE IF NoPerson(Head(is)) THEN WithPerson(Tail(is))
  ELSE <<records[Head(is)]>> \o WithPerson(Tail(is))

\* C23: no record of the output has an adm_no that is empty or zero
\* (whitespace aside), and the output is what it would be had the events with
\* such an identifier not been received.
C23_NoZeroOrEmptyId ==
  aggPc = "done" =>
    /\ \A k \in 1..Len(processed) :
         Trim(processed[k].adm_no) \notin {<<>>, <<"0">>}
    /\ processed =
         processAttendance(WithPerson([i \in 1..Len(records) |-> i]))

\* Events without a person before and after the only event of a person.
C23_Witness ==
  /\ aggPc = "done"
  /\ records = <<EvZero0600, EvA0810, EvZero1600>>
  /\ processed = << [adm_no |-> <<"A">>,
                     time_in |-> <<"0", "8", ":", "1", "0", ":", "2", "2">>,
                     time_out |-> Null] >>

\* C24: the output has exactly one record for each distinct person
\* identifier (whitespace around it aside) that has an event with a parseable
\* timestamp, none for any other identifier, and none twice.
C24_OneRecordPerPerson ==
  aggPc = "done" =>
    /\ {processed[k].adm_no : k \in 1..Len(processed)} =
         {PersonOf(i) : i \in {j \in 1..Len(records) :
                                 ~NoPerson(j) /\ ~TimeOf(j).null}}
    /\ \A k1, k2 \in 1..Len(processed) :
         processed[k1].adm_no = processed[k2].adm_no => k1 = k2

\* Two events of one person, one with a space before the identifier, and a
\* person whose only event has no parseable timestamp.
C24_Witness ==
  /\ aggPc = "done"
  /\ records = <<EvA0810, EvA1429, EvBNoT>>
  /\ Len(processed) = 1 /\ processed[1].adm_no = <<"A">>

----------------------------------------------------------------------------
(* Claims about HikvisionClient.request and getDeviceInfo, under ClientSpec *)

\* The response the call obtained last.
FinalResponse == reqGot[Len(reqGot)]

\* C26: a call of request sends at most two HTTP requests, the second with
\* credentials; when the second is answered 401 the call has failed with the
\* authentication error that carries the credential hint, and no third
\* request was sent.
C26_AtMostTwoRequests ==
  /\ Len(reqSent) <= 2
  /\ Len(reqSent) = 2 => (~reqSent[1].auth /\ reqSent[2].auth)
  /\ (Len(reqGot) >= 2 /\ reqGot[2].error = "none" /\ reqGot[2].status = 401) =>
       /\ reqPc = "threw"
       /\ reqResult.error = "authRejected" /\ reqResult.hint = "credentials"
       /\ Len(reqSent) = 2 /\ Len(reqGot) = 2

\* Challenge, then 401 again.
C26_Witness ==
  /\ reqPc = "threw" /\ reqResult.error = "authRejected"
  /\ Len(reqSent) = 2 /\ reqGot[1].wwwAuth /\ reqGot[2].status = 401

\* C27: when the call has ended and the final response it obtained has a
\* status that is not 2xx, it has failed with an error; a body is returned
\* only for a 2xx response.
C27_Non2xxFails ==
  (reqPc \in {"returned", "threw"} /\ FinalResponse.error = "none") =>
    /\ FinalResponse.status \notin 200..299 => reqPc = "threw"
    /\ reqPc = "returned" => FinalResponse.status \in 200..299

\* The part of C27 the code keeps: after the authenticated request a status
\* of 400 or more fails the call.
C27_AuthedErrorFails ==
  (reqPc \in {"returned", "threw"} /\ Len(reqGot) = 2 /\ FinalResponse.error = "none") =>
    (FinalResponse.status >= 400 => reqPc = "threw")

\* An identity is usable when the body is an object with some identity field.
UsableIdentity(d) == d.kind = "object" /\ hasData(d.fields)

\* C28: when getDeviceInfo has returned, what it returned is a usable
\* identity; without one it fails.
C28_IdentityOrFailure ==
  (reqVia = "getDeviceInfo" /\ reqPc = "returned") => UsableIdentity(reqResult.data)

----------------------------------------------------------------------------
(* C29: the qop=auth response of buildDigestAuth                             *)

RECURSIVE HeaderParam(_, _)
\* The value the built header carries for a parameter, "" when it has none.
HeaderParam(header, key) ==
  IF header = <<>> THEN <<>>
  ELSE IF Head(header)[1] = key THEN Head(header)[2]
       ELSE HeaderParam(Tail(header), key)

\* The challenge of the call asks for qop=auth.
ChallengeQopAuth == digestParam(digArgs.wwwAuth, "qop") = QopAuth

\* The challenge of the call names the session variant of the algorithm.
SessionVariant ==
  ToUpperCase(digestParam(digArgs.wwwAuth, "algorithm")) = MD5_SESS

\* hash(username:realm:password) of the call.
BaseHa1 ==
  md5(Join(<<digArgs.username, digestParam(digArgs.wwwAuth, "realm"),
             digArgs.password>>))

\* The response recomputed from the inputs with HA1 as given and the cnonce
\* of the header.
Recomputed(ha1) ==
  md5(Join(<<ha1, digestParam(digArgs.wwwAuth, "nonce"), NonceCount,
             HeaderParam(digHeader, "cnonce"), QopAuth,
             md5(Join(<<digArgs.method, digArgs.uri>>))>>))

\* C29: for a challenge with qop=auth the response in the header equals
\* hash(HA1:nonce:00000001:cnonce:auth:HA2) with the header's cnonce,
\* HA2 = hash(method:uri), and HA1 = hash(username:realm:password), or
\* hash(hash(username:realm:password):nonce:cnonce) with the same cnonce for
\* the session variant.
C29_ResponseRecomputes ==
  (digPc = "built" /\ ChallengeQopAuth) =>
    HeaderParam(digHeader, "response") =
      Recomputed(IF SessionVariant
                 THEN md5(Join(<<BaseHa1, digestParam(digArgs.wwwAuth, "nonce"),
                                 HeaderParam(digHeader, "cnonce")>>))
                 ELSE BaseHa1)

\* What the code keeps of C29: with an algorithm other than the session variant
\* the response is the recomputation from hash(username:realm:password).
C29_PlainAlgorithmRecomputes ==
  (digPc = "built" /\ ChallengeQopAuth /\ ~SessionVariant) =>
    HeaderParam(digHeader, "response") = Recomputed(BaseHa1)

\* The session variant as built: HA1 is hashed with an empty client nonce.
C29_SessionUsesEmptyCnonce ==
  (digPc = "built" /\ ChallengeQopAuth /\ SessionVariant) =>
    HeaderParam(digHeader, "response") =
      Recomputed(md5(Join(<<BaseHa1, digestParam(digArgs.wwwAuth, "nonce"), <<>>>>)))

----------------------------------------------------------------------------
(* C25: the order of the steps of main                                       *)

\* The place of a step in the order discovery, fetch, aggregation, dispatch.
Rank(name) ==
  CASE name = "discovery" -> 1
    [] name = "fetch" -> 2
    [] name = "aggregation" -> 3
    [] name = "dispatch" -> 4

Made(name) == \E i \in 1..Len(steps) : steps[i].name = name

\* C25: in every run of main the steps occur in the order discovery, event
\* fetch, aggregation, dispatch; the fetch is issued only once discovery has
\* resolved and goes to the resolved address (the healed one when changed is
\* true); and nothing is dispatched to the cloud in a run in which discovery
\* or the fetch failed.
C25_StepsInOrder ==
  /\ \A i \in 1..Len(steps) : Rank(steps[i].name) = i
  /\ \A i \in 1..Len(steps) :
       steps[i].name = "fetch" =>
         /\ discovery.resolved
         /\ steps[i].host = discovery.ip
         /\ terminalHost = discovery.ip
  /\ failedStep \in {"discovery", "fetch"} => ~Made("dispatch")
  /\ Made("dispatch") => discovery.resolved /\ rawRecords # <<>>

\* A run that healed the address, fetched from the new one and dispatched.
C25_Witness ==
  /\ mainPc = "returned"
  /\ discovery.changed
  /\ discovery.ip # ConfiguredHost
  /\ steps[2] = Step("fetch", discovery.ip)
  /\ Made("dispatch")

----------------------------------------------------------------------------
(* C30: an empty page ends the pagination                                    *)

\* C30: in getAttendanceEvents, once a page response with zero entries has
\* arrived no further page request is issued in that call, even when the
\* running count is still below the declared totalMatches.
C30_EmptyPageEndsPaging ==
  \A i \in 1..Len(pages) : pages[i] = <<>> => Len(requests) <= i

\* What the code keeps of C30: an empty page after the first one is the last
\* request of the call, whatever the declared total.
C30_EmptyLaterPageEndsPaging ==
  \A i \in 2..Len(pages) :
    pages[i] = <<>> => Len(requests) = i /\ gaePc = "returned"

----------------------------------------------------------------------------
(* C31: the two-step exchange of probeDevice, variant by variant             *)

\* The place in attempts of the variant request i belongs to.
VariantOf(i) == CHOOSE n \in 1..Len(attempts) : attempts[n].path = probeSent[i].path

\* The answer to request i is a 401 that carries a challenge.
Challenged(i) ==
  ~Rejects(probeGot[i]) /\ probeGot[i].status = 401 /\ probeGot[i].wwwAuth

\* The answer to the authenticated request i yields an identity.
YieldsIdentity(i) ==
  /\ probeSent[i].auth
  /\ ~Rejects(probeGot[i]) /\ probeGot[i].status = 200
  /\ LET r == normaliseDeviceInfo(probeGot[i].data, probeGot[i].contentType)
     IN ~r.threw /\ r.info # NoInfo

\* After the answer to request i the variant is given up: the first request
\* of the next variant follows, or 'no identity' is returned after the last.
Abandoned(i) ==
  IF VariantOf(i) < Len(attempts)
    THEN /\ Len(probeSent) > i
         /\ probeSent[i + 1] = [path |-> attempts[VariantOf(i) + 1].path,
                                accept |-> attempts[VariantOf(i) + 1].accept,
                                auth |-> FALSE]
    ELSE /\ Len(probeSent) = i /\ probePc = "done"
         /\ probeResult = [returned |-> TRUE, info |-> NoInfo]

\* C31: in probeDevice an authenticated request follows the unauthenticated
\* request of the same variant, answered with a 401 that carries a challenge;
\* any other first answer, and any authenticated answer that yields no
\* identity, gives the variant up for the next one; the variants are tried
\* JSON-preferring first, XML-preferring second; the probe stops at the first
\* identity; and no probe sends more than four requests.
C31_TwoStepPerVariant ==
  /\ Len(probeSent) <= 2 * Len(attempts)
  /\ Len(probeSent) <= 4
  /\ Len(probeSent) >= 1 =>
       probeSent[1] = [path |-> attempts[1].path, accept |-> attempts[1].accept,
                       auth |-> FALSE]
  /\ attempts[1].accept = "application/json"
  /\ \A i \in 1..Len(probeSent) :
       /\ probeSent[i].accept = attempts[VariantOf(i)].accept
       /\ probeSent[i].auth =>
            /\ i > 1
            /\ ~probeSent[i - 1].auth
            /\ probeSent[i - 1].path = probeSent[i].path
            /\ Challenged(i - 1)
       /\ \A j \in 1..Len(probeSent) : i < j => VariantOf(i) <= VariantOf(j)
  /\ \A i \in 1..Len(probeGot) :
       /\ (~probeSent[i].auth /\ ~Challenged(i)) => Abandoned(i)
       /\ (~probeSent[i].auth /\ Challenged(i)) =>
            /\ Len(probeSent) > i
            /\ probeSent[i + 1] = [path |-> probeSent[i].path,
                                   accept |-> probeSent[i].accept, auth |-> TRUE]
       /\ (probeSent[i].auth /\ ~YieldsIdentity(i)) => Abandoned(i)
       /\ YieldsIdentity(i) =>
            /\ Len(probeSent) = i /\ probePc = "done"
            /\ probeResult.returned /\ probeResult.info # NoInfo

\* Four requests were sent: the first variant was challenged and then
\* refused, the second was challenged and yielded the identity returned.
C31_Witness ==
  /\ probePc = "done"
  /\ Len(probeSent) = 4
  /\ Challenged(1) /\ probeGot[2].status = 404
  /\ Challenged(3) /\ YieldsIdentity(4)
  /\ probeSent[3].path = attempts[2].path

----------------------------------------------------------------------------
(* C32: the identities probeDevice returns                                   *)

\* Some identity field of info is present and not the empty string.
SomeFieldPresent(info) ==
  \E f \in {info.deviceName, info.model, info.serialNumber,
            info.firmwareVersion, info.macAddress} : Truthy(f)

\* C32: every identity probeDevice returns has at least one non-empty field
\* among deviceName, model, serialNumber, firmwareVersion and macAddress; a
\* successful response in which all of them are empty is 'no identity'.
C32_ReturnedIdentityHasField ==
  (probePc = "done" /\ probeResult.info # NoInfo) => SomeFieldPresent(probeResult.info)

\* What the code keeps of C32: an identity taken from a response that is not
\* declared as JSON has a field that is not null (it may be the empty string).
C32_XmlIdentityHasNonNullField ==
  (probePc = "done" /\ probeResult.info # NoInfo
     /\ ~Includes(ToLowerCase(probeGot[Len(probeGot)].contentType), <<"j", "s", "o", "n">>))
    => hasData(probeResult.info)

\* An identity without any non-empty field came from an XML response.
C32_BlankXmlReturned ==
  /\ probePc = "done" /\ probeResult.info # NoInfo
  /\ ~SomeFieldPresent(probeResult.info)
  /\ probeGot[Len(probeGot)].data = BodyXmlBlank
  /\ probeGot[Len(probeGot)].contentType = <<"a", "/", "x", "m", "l">>

----------------------------------------------------------------------------
(* C33: what isTargetDevice takes for a match                                *)

\* The lower-cased, trimmed target of the call.
MatchTarget == Trim(ToLowerCase(matchArgs.targetName))

\* A field of the identity that is populated and, lower-cased and trimmed, is
\* equal to the target, contains it, or is contained in it.
RelatedField ==
  \E f \in {matchArgs.info.deviceName, matchArgs.info.model,
            matchArgs.info.serialNumber, matchArgs.info.macAddress} :
    /\ ~f.null /\ f.str # <<>>
    /\ LET c == Trim(ToLowerCase(f.str))
       IN \/ c = MatchTarget
          \/ \E i \in 1..Len(c) : \E j \in i..Len(c) : SubSeq(c, i, j) = MatchTarget
          \/ \E i \in 1..Len(MatchTarget) : \E j \in i..Len(MatchTarget) :
               SubSeq(MatchTarget, i, j) = c
          \/ MatchTarget = <<>> \/ c = <<>>

\* The lower-cased raw payload contains the target.
RawContainsTarget ==
  LET raw == ToLowerCase(matchArgs.info.raw)
  IN \/ MatchTarget = <<>>
     \/ \E i \in 1..Len(raw) : \E j \in i..Len(raw) : SubSeq(raw, i, j) = MatchTarget

\* C33: isTargetDevice(info, target) is true exactly when the target is not
\* empty and either a populated field among deviceName, model, serialNumber
\* and macAddress, lower-cased and trimmed, is equal to, contains or is
\* contained in the lower-cased trimmed target, or the lower-cased raw payload
\* contains that target; an identity with no such relation never matches.
C33_MatchesExactlyRelated ==
  matchResult.returned =>
    (matchResult.value <=>
       (matchArgs.targetName # <<>> /\ (RelatedField \/ RawContainsTarget)))

\* A call in which no field is related to the target and the payload holds
\* it: the call matched.
C33_Witness ==
  /\ matchResult.returned
  /\ matchArgs.targetName = <<"k", "1", " ">>
  /\ ~RelatedField /\ RawContainsTarget
  /\ matchResult.value

----------------------------------------------------------------------------
(* C34: a failed write of the new address                                    *)

\* The write of the new address was requested and the file does not hold it.
PersistFailed ==
  /\ envWrites # <<>>
  /\ envFileHost # envWrites[Len(envWrites)]

\* C34: when a matching device was found and the write of its address to the
\* configuration file fails, ensureDeviceReachable does not fail: it returns
\* the address found, changed = true and the identity that matched.
C34_PersistFailureStillReturns ==
  (discPc \in {"done", "failed"} /\ PersistFailed) =>
    /\ discPc = "done"
    /\ discError = NoFailure
    /\ discResult.returned /\ discResult.changed
    /\ discResult.ip = envWrites[Len(envWrites)]
    /\ \E k \in 1..Len(found) :
         /\ found[k] = [ip |-> discResult.ip, info |-> discResult.info]
         /\ isTargetDevice(found[k].info, deviceName)

\* The call returned a new address that the configuration file does not hold.
C34_Witness ==
  /\ discPc = "done"
  /\ PersistFailed
  /\ discResult.changed
  /\ discResult.ip # ConfiguredHost
  /\ envFileHost = ConfiguredHost

----------------------------------------------------------------------------
(* C35: which of several matches is returned                                 *)

\* The positions in found, the list in order of probe completion, of the
\* identities that match the target name.
Matching == {k \in 1..Len(found) : isTargetDevice(found[k].info, deviceName)}

\* C35: when several scanned hosts returned identities that match the target
\* name, the call returns the address of the match accumulated first, the
\* matching host whose probe completed earliest.
C35_EarliestMatchReturned ==
  (discPc = "done" /\ discResult.changed) =>
    LET matching == Matching
    IN Cardinality(matching) >= 2 =>
         \E k \in matching :
           /\ \A j \in matching : k <= j
           /\ discResult.ip = found[k].ip
           /\ discResult.info = found[k].info

\* Two hosts matched and the one returned does not have the lower address:
\* its probe completed before that of a matching host with a lower address.
C35_Witness ==
  /\ discPc = "done" /\ discResult.changed
  /\ Cardinality(Matching) >= 2
  /\ \E j \in Matching :
       /\ found[j].ip[1] = discResult.ip[1]
       /\ found[j].ip[2] < discResult.ip[2]

----------------------------------------------------------------------------
(* C36: the order of the input events                                        *)

\* The list l in the order the permutation p of its positions gives.
Reordered(l, p) == [i \in 1..Len(l) |-> l[p[i]]]

\* The records of a result, as a set.
RecordSet(out) == {out[i] : i \in 1..Len(out)}

\* C36: the set of records processAttendance produces is the same for every
\* permutation of the input list: reordering the events, across persons or
\* within one person's events, changes neither which persons appear nor any
\* person's time_in or time_out.
C36_PermutationInvariant ==
  aggPc = "done" =>
    \A p \in Permutations(1..Len(records)) :
      RecordSet(processAttendance(Reordered(records, p))) = RecordSet(processed)

\* Events of two persons were received with a person's later event first;
\* the result lists both persons, and in another order of the input the
\* result is another list of the same records.
C36_Witness ==
  /\ aggPc = "done"
  /\ records = <<EvA1505, EvB0745, EvA0810>>
  /\ Len(processed) = 2
  /\ processed[1].time_in = <<"0", "8", ":", "1", "0", ":", "2", "2">>
  /\ processAttendance(<<EvB0745, EvA0810, EvA1505>>) # processed

----------------------------------------------------------------------------
(* C37 and C38: time_in against time_out                                     *)

\* The seconds since midnight a time "HH:MM:SS" of the output stands for.
RawSeconds(raw) ==
  3600 * (10 * DigitVal(raw[1]) + DigitVal(raw[2]))
    + 60 * (10 * DigitVal(raw[4]) + DigitVal(raw[5]))
    + 10 * DigitVal(raw[7]) + DigitVal(raw[8])

\* C37: in every record of the output that carries a time_out, time_in is not
\* later than time_out.
C37_TimeInNotAfterTimeOut ==
  aggPc = "done" =>
    \A k \in 1..Len(processed) :
      ~processed[k].time_out.null =>
        /\ Len(processed[k].time_in) = 8 /\ Len(processed[k].time_out.str) = 8
        /\ RawSeconds(processed[k].time_in) <= RawSeconds(processed[k].time_out.str)

\* A person seen after the threshold first and in the morning afterwards.
C37_Witness ==
  /\ aggPc = "done"
  /\ records = <<EvA1505, EvA0810>>
  /\ processed = << [adm_no |-> <<"A">>,
                     time_in |-> <<"0", "8", ":", "1", "0", ":", "2", "2">>,
                     time_out |-> Str(<<"1", "5", ":", "0", "5", ":", "0", "0">>)] >>

\* The persons of the input whose parseable events are all at or after the
\* threshold, and who have one at least.
OnlyAfterThreshold ==
  {p \in {PersonOf(i) : i \in {j \in 1..Len(records) : ~NoPerson(j)}} :
     /\ ParseableOf(p) # {}
     /\ \A i \in ParseableOf(p) : AtOrAfterThreshold(TimeOf(i))}

\* C38: a person whose only parseable event is at or after the threshold has
\* a record whose time_in and time_out are both the time of that event; when
\* all of a person's parseable events are at or after the threshold, time_in
\* is the earliest and time_out the latest of them.
C38_AllAfterThreshold ==
  aggPc = "done" =>
    \A p \in OnlyAfterThreshold :
      \E k \in 1..Len(processed) :
        /\ processed[k].adm_no = p
        /\ ~processed[k].time_out.null
        /\ \E i, j \in ParseableOf(p) :
             /\ processed[k].time_in = TimeOf(i).raw
             /\ processed[k].time_out.str = TimeOf(j).raw
             /\ \A n \in ParseableOf(p) :
                  /\ SecondsOfDay(TimeOf(i)) <= SecondsOfDay(TimeOf(n))
                  /\ SecondsOfDay(TimeOf(n)) <= SecondsOfDay(TimeOf(j))
        /\ Cardinality(ParseableOf(p)) = 1 =>
             processed[k].time_in = processed[k].time_out.str

\* A person with one parseable event, after the threshold, between two
\* events without a timestamp: both times are the time of that event.
C38_Witness ==
  /\ aggPc = "done"
  /\ records = <<EvANoT, EvA1505, EvANull>>
  /\ processed = << [adm_no |-> <<"A">>,
                     time_in |-> <<"1", "5", ":", "0", "5", ":", "0", "0">>,
                     time_out |-> Str(<<"1", "5", ":", "0", "5", ":", "0", "0">>)] >>

====
